---- MODULE Spec2Model ----
(***************************************************************************)
(* OAuth token lifecycle of the evidence tracker: the two token tables,    *)
(* the authorization callbacks that fill them, and the domain operations   *)
(* (list cases, search clients, list folders, upload file) that read a     *)
(* token record, refresh it when it is within five minutes of expiry, and  *)
(* call the third-party API; and the dashboard page that uses them: its    *)
(* client search and its evidence form.                                    *)
(*                                                                         *)
(* Time is counted in minutes (the code counts milliseconds; every instant *)
(* and lifetime of the model is a whole number of minutes, so the          *)
(* comparisons are the code's).  Every await of a handler is a separate    *)
(* step.  Spec serves one request after the other while the clock moves,   *)
(* Race has two requests of one integration in flight together, Paging     *)
(* lists the cases of every listing the authority may hold, Termination    *)
(* does so with every request answered, Accounts has two users of the      *)
(* file storage and an administrator, Submission is the evidence form and  *)
(* Session the client search of one dashboard page.                        *)
(***************************************************************************)
EXTENDS Integers, FiniteSets, Sequences, TLC

\* 5 * 60 * 1000 ms, in minutes
SKEW == 5

\* the clock stops here
MaxNow == 1
\* pages a listing of the case-management authority has at most
MaxPages == 3

\* request slots; the hosting runtime serves them concurrently
Procs == {"p1", "p2"}
\* the slot of a run that serves one request after the other
Sequential == {"p1"}
\* the id of the auth.users row the file-storage integration is used by
Users == {"u1"}
\* the ids of the auth.users rows of a deployment with two accounts
Tenants == {"u1", "u2"}
\* what an authority hands out in one response: an access token and the
\* refresh token that goes with it
Grants == {[access_token |-> "a1", refresh_token |-> "r1"],
           [access_token |-> "a2", refresh_token |-> "r2"]}
\* expires_in the authorities declare: below, at and above the margin
Lifetimes == {SKEW - 1, SKEW, SKEW + 1}
Undef == "undefined"
\* ids of the cases the case-management authority may hold
CaseIds == 1..5

VARIABLES
  now,                  \* Date.now()
  mycase_oauth_tokens,  \* rows of public.mycase_oauth_tokens
  google_oauth_tokens,  \* rows of google_oauth_tokens
  op,                   \* per request in flight: handler, position, locals
  v1_cases,             \* what GET /v1/cases of the authority serves, by page
  auth_users,           \* ids of the rows of auth.users
  evidence_logs,        \* ids of the rows of evidence_logs
  evidence_files,       \* rows of evidence_files, in the order of their insertion
  dashboard             \* the dashboard page of one browser: its React state,
                        \* its timer and its handlers in flight

vars == <<now, mycase_oauth_tokens, google_oauth_tokens, op, v1_cases, auth_users, evidence_logs, evidence_files, dashboard>>

\* interface MyCaseTokens / GoogleTokens, before anything was read
NoTokens == [access_token |-> Undef, refresh_token |-> Undef, expires_at |-> 0,
             user_id |-> Undef]
\* the token endpoint's JSON body, before any response
NoData == [access_token |-> Undef, refresh_token |-> Undef, expires_in |-> 0,
           scope |-> Undef]
\* a response to the browser that was not produced yet
NoResponse == [status |-> 0, body |-> "none", needsOAuth |-> FALSE, oauthUrl |-> Undef]

\* a request slot with no handler running.  tokens, data, rowId, pageCount,
\* allCases and nextPageToken are the handlers' locals (a null token is the
\* empty string); page_token is the query parameter of the request to
\* /v1/cases that is under way and clients the array of the JSON response;
\* searchUrls counts the search requests still to be answered, allClients,
\* cursor (the client whose cases are being fetched) and results are the
\* search's locals; bearer is the access token of the Authorization header
\* of the API request under way; state is the state parameter a callback
\* was called with; input is the argument
\* refreshTokenIfNeeded was called with (at calledAt), refresh the branch
\* it took, refreshedAt the Date.now() at which an exchange was answered; nExchange, nWrite and
\* nApi count the refresh exchanges, Token Store writes and domain API
\* requests the handler has issued, and storageError tells that one of its
\* Token Store calls met a storage error, unauthorized that the API answered
\* one of its requests with 401; requested are the page_token values of its
\* requests to /v1/cases, authUrlState the state parameter of the
\* authorization URL it redirected to
Idle == [kind |-> "idle", pc |-> "idle", userId |-> Undef, state |-> Undef,
         tokens |-> NoTokens, input |-> NoTokens, data |-> NoData,
         refresh |-> "none", calledAt |-> 0, refreshedAt |-> 0,
         rowId |-> 0, pageCount |-> 0,
         allCases |-> <<>>, nextPageToken |-> <<>>, page_token |-> <<>>,
         searchUrls |-> 0, allClients |-> <<>>, cursor |-> 0, results |-> <<>>,
         bearer |-> Undef,
         clients |-> <<>>,
         nExchange |-> 0, nWrite |-> 0, nApi |-> 0,
         storageError |-> FALSE, unauthorized |-> FALSE,
         authUrlState |-> <<>>, requested |-> <<>>,
         response |-> NoResponse]

(***************************************************************************)
(* The dashboard page                                                      *)
(***************************************************************************)

\* files the evidence form holds at most
MaxFiles == 3
\* requests for the list of all cases a page session sends at most
MaxFetches == 3
\* the files a user may pick, by name
FileIds == 1..MaxFiles
\* ids the database gives to rows of evidence_logs
LogIds == {1, 2}
\* what the search box may hold: nothing, or one of two case numbers
Queries == {"12", "123"}
\* a name the search box may hold
Names == {"ann"}

\* no handleSubmit has run: files is the list its closure holds, logData
\* the row it inserted, cursor the place of uploadFile in files; requests
\* are the files sent to /api/google/drive/upload
NoSubmit == [pc |-> "idle", files |-> <<>>, logData |-> 0, cursor |-> 0,
             uploadedFiles |-> <<>>, requests |-> <<>>, error |-> FALSE]
\* no timer is set
NoTimeout == [set |-> FALSE, query |-> "", cacheLoaded |-> FALSE]

\* the page after its first render: the useState values, the timer of the
\* debounce effect, the calls of searchByCaseNumber (fetching) and of
\* searchByClientName (searching) awaiting their fetch, and the number of
\* requests sent to /api/mycase/clients
Mounted == [files |-> <<>>, loading |-> FALSE, submit |-> NoSubmit,
            clientSearch |-> "", loadingClients |-> FALSE,
            allCasesCache |-> <<>>, cacheLoaded |-> FALSE,
            timeoutId |-> NoTimeout, fetching |-> 0, nFetch |-> 0,
            searching |-> 0]

(***************************************************************************)
(* GET /v1/cases of the case-management authority.  A string is the        *)
(* sequence of its characters.                                             *)
(***************************************************************************)

\* what URLSearchParams.set writes into the query for a value: a character
\* outside the unreserved set goes out as its percent escape
RECURSIVE PercentEncode(_)
PercentEncode(str) ==
  IF str = <<>> THEN <<>>
  ELSE (CASE Head(str) = "=" -> <<"%", "3", "D">>
          [] Head(str) = "%" -> <<"%", "2", "5">>
          [] OTHER -> <<Head(str)>>) \o PercentEncode(Tail(str))

\* what a server reads out of a query value: escapes resolved once
RECURSIVE PercentDecode(_)
PercentDecode(str) ==
  IF str = <<>> THEN <<>>
  ELSE IF Len(str) >= 3 /\ SubSeq(str, 1, 3) = <<"%", "3", "D">>
    THEN <<"=">> \o PercentDecode(SubSeq(str, 4, Len(str)))
  ELSE IF Len(str) >= 3 /\ SubSeq(str, 1, 3) = <<"%", "2", "5">>
    THEN <<"%">> \o PercentDecode(SubSeq(str, 4, Len(str)))
  ELSE <<Head(str)>> \o PercentDecode(Tail(str))

\* the opaque continuation token of page k: the authority's choice, with or
\* without a character that a URL cannot carry as it is
PageToken(k, padded) == <<ToString(k)>> \o (IF padded THEN <<"=">> ELSE <<>>)

\* a page of cases: ids in the order the authority lists them
PagesOfCases ==
  {<<>>} \cup {<<i>> : i \in CaseIds}
         \cup {<<i, j>> : <<i, j>> \in {x \in CaseIds \X CaseIds : x[1] < x[2]}}

\* the listings of n pages the authority may hold: the first page is
\* served without a token, each other under its own token
Listings(n) ==
  { [k \in 1..n |->
       [cases |-> pages[k],
        page_token |-> IF k = 1 THEN <<>> ELSE PageToken(k, padded)]] :
     pages \in [1..n -> PagesOfCases], padded \in BOOLEAN }

\* the page the authority serves for the page_token it reads from a
\* request, 0 when it issued no such token
PageFor(listing, query) ==
  LET token == PercentDecode(query)
  IN IF \E k \in 1..Len(listing) : listing[k].page_token = token
       THEN CHOOSE k \in 1..Len(listing) : listing[k].page_token = token
       ELSE 0

\* the Link header of page k: the URL of the next page inside <..>; rel="next"
\* carries that page's token as a query value, or there is no such link
LinkNextToken(listing, k) ==
  IF k < Len(listing) THEN PercentEncode(listing[k + 1].page_token) ELSE <<>>

\* caseItem.updated_at of the case with this id
updated_at == [i \in CaseIds |-> i % 3]

\* .sort((a, b) => dateB - dateA): most recently updated first, equal dates
\* in the order they had
RECURSIVE SortByUpdatedAt(_)
SortByUpdatedAt(items) ==
  IF items = <<>> THEN <<>>
  ELSE LET x      == items[Len(items)]
           sorted == SortByUpdatedAt(SubSeq(items, 1, Len(items) - 1))
           n      == Cardinality({i \in 1..Len(sorted) :
                                    updated_at[sorted[i]] >= updated_at[x]})
       IN SubSeq(sorted, 1, n) \o <<x>> \o SubSeq(sorted, n + 1, Len(sorted))

Init ==
  /\ now = 0
  /\ mycase_oauth_tokens = {}
  /\ google_oauth_tokens = {}
  /\ auth_users = Users
  /\ evidence_logs = {}
  /\ evidence_files = <<>>
  /\ dashboard = Mounted
  /\ op = [p \in Procs |-> Idle]
  /\ v1_cases = <<[cases |-> <<1, 2>>, page_token |-> <<>>],
                  [cases |-> <<2, 3>>, page_token |-> PageToken(2, FALSE)]>>

(***************************************************************************)
(* The Token Store: two tables behind PostgREST.  The columns created_at    *)
(* and updated_at, which the handlers write and never read, are left out.  *)
(***************************************************************************)

\* .single(): the row when the filter matches exactly one, else an error
SingleOk(rows, err) == ~err /\ Cardinality(rows) = 1
TheRow(rows) == CHOOSE r \in rows : TRUE

\* id UUID DEFAULT gen_random_uuid(): an id no row has
NewId(tbl) == CHOOSE n \in 1..(Cardinality(tbl) + 1) : \A r \in tbl : r.id # n

\* the table without its singleton index
SingletonViolated_NoIndex(tbl) == FALSE

\* CREATE UNIQUE INDEX idx_mycase_oauth_singleton ON mycase_oauth_tokens ((1)):
\* a second row is rejected
SingletonViolated(tbl) == tbl # {}

\* INSERT of a row without id: ON CONFLICT (id) never applies to a generated
\* id, so upsert({..}, {onConflict: 'id'}) and insert({..}) both add a row
MyCaseInsert(tbl, rec) ==
  tbl \cup {[id |-> NewId(tbl), access_token |-> rec.access_token,
             refresh_token |-> rec.refresh_token, expires_at |-> rec.expires_at]}

\* the row replaced by a new one
MyCaseUpdate_Replace(tbl, id, newTokens) ==
  {r \in tbl : r.id # id} \cup
  {[id |-> NewId(tbl), access_token |-> newTokens.access_token,
    refresh_token |-> newTokens.refresh_token, expires_at |-> newTokens.expires_at]}

\* .update({access_token, refresh_token, expires_at, updated_at}).eq('id', id):
\* a key whose value is undefined is not sent, its column keeps its value
MyCaseUpdate(tbl, id, newTokens) ==
  { IF r.id = id
      THEN [r EXCEPT !.access_token = newTokens.access_token,
                     !.refresh_token = IF newTokens.refresh_token = Undef
                                         THEN @ ELSE newTokens.refresh_token,
                     !.expires_at = newTokens.expires_at]
      ELSE r : r \in tbl }

\* the upsert without its conflict target: a row is added each time
GoogleUpsert_Insert(tbl, userId, rec, scope) ==
  tbl \cup {[id |-> NewId(tbl), user_id |-> userId,
             access_token |-> rec.access_token,
             refresh_token |-> rec.refresh_token,
             expires_at |-> rec.expires_at, scope |-> scope]}

\* .upsert({user_id, access_token, refresh_token, expires_at, scope, updated_at},
\*         {onConflict: 'user_id'}) under google_oauth_tokens_user_id_unique
GoogleUpsert(tbl, userId, rec, scope) ==
  LET old == {r \in tbl : r.user_id = userId}
      id  == IF old = {} THEN NewId(tbl) ELSE TheRow(old).id
  IN (tbl \ old) \cup {[id |-> id, user_id |-> userId,
                        access_token |-> rec.access_token,
                        refresh_token |-> rec.refresh_token,
                        expires_at |-> rec.expires_at, scope |-> scope]}

\* the update without its filter
GoogleUpdate_All(tbl, userId, access_token, newExpiresAt) ==
  { [r EXCEPT !.access_token = access_token, !.expires_at = newExpiresAt] : r \in tbl }

\* .update({access_token, expires_at, updated_at}).eq('user_id', userId)
GoogleUpdate(tbl, userId, access_token, newExpiresAt) ==
  { IF r.user_id = userId
      THEN [r EXCEPT !.access_token = access_token,
                     !.expires_at = newExpiresAt]
      ELSE r : r \in tbl }

(***************************************************************************)
(* refreshTokenIfNeeded                                                    *)
(***************************************************************************)

\* the operands of the subtraction exchanged
NeedsRefresh_Swapped(tokens, t) == t - tokens.expires_at < SKEW

\* the margin itself counted as stale
NeedsRefresh_Inclusive(tokens, t) == tokens.expires_at - t <= SKEW

\* if (expiresAt.getTime() - now.getTime() < 5 * 60 * 1000)
NeedsRefresh(tokens, t) == tokens.expires_at - t < SKEW

\* the lifetime taken for an instant
ExpiresAt_Relative(t, expires_in) == expires_in

\* new Date(Date.now() + data.expires_in * 1000)
ExpiresAt(t, expires_in) == t + expires_in

\* case management: newTokens = { data.access_token, data.refresh_token, .. }
MyCaseNewTokens(tokens, data, t) ==
  [access_token |-> data.access_token, refresh_token |-> data.refresh_token,
   expires_at |-> ExpiresAt(t, data.expires_in), user_id |-> Undef]

\* file storage: { ...tokens, access_token: data.access_token, expires_at }
GoogleNewTokens(tokens, data, t) ==
  [tokens EXCEPT !.access_token = data.access_token,
                 !.expires_at = ExpiresAt(t, data.expires_in)]

\* what a token endpoint may answer to grant_type=refresh_token: a new
\* refresh token is optional
RefreshData ==
  { [access_token |-> g.access_token, refresh_token |-> r, expires_in |-> l,
     scope |-> Undef] :
      <<g, r, l>> \in { x \in Grants \X {"r1", "r2", Undef} \X Lifetimes :
                          x[2] \in {x[1].refresh_token, Undef} } }

\* what a token endpoint answers to grant_type=authorization_code
CodeData ==
  { [access_token |-> g.access_token, refresh_token |-> g.refresh_token,
     expires_in |-> l, scope |-> "drive"] : <<g, l>> \in Grants \X Lifetimes }

(***************************************************************************)
(* Responses                                                               *)
(***************************************************************************)

\* the handler returns: its locals are gone, its response and what it did
\* remain
Return(o, response) ==
  [Idle EXCEPT !.kind = o.kind, !.pc = "done", !.userId = o.userId,
               !.refresh = o.refresh, !.storageError = o.storageError,
               !.nExchange = o.nExchange, !.nWrite = o.nWrite, !.nApi = o.nApi,
               !.clients = o.clients, !.unauthorized = o.unauthorized,
               !.authUrlState = o.authUrlState, !.requested = o.requested,
               !.response = response]

Respond(o, status, body) ==
  Return(o, [status |-> status, body |-> body,
             needsOAuth |-> FALSE, oauthUrl |-> Undef])

\* the missing record reported as any other failure
NotConnected_Generic(o, oauthUrl) == Respond(o, 500, "Failed to fetch clients")

\* { error: '.. not connected', needsOAuth: true, oauthUrl }, { status: 401 }
NotConnected(o, oauthUrl) ==
  Return(o, [status |-> 401, body |-> "not connected",
             needsOAuth |-> TRUE, oauthUrl |-> oauthUrl])

Begin(kind, pc) == [Idle EXCEPT !.kind = kind, !.pc = pc]

\* the statuses of a response that is not ok: the API rejects the bearer
\* token, or fails otherwise
ApiErrors == {401, 500}
\* the handler has seen an API answer of status 401
Rejected(o, status) == [o EXCEPT !.unauthorized = @ \/ status = 401]
Free(p) == op[p].pc \in {"idle", "done"}
At(p, kind, pc) == op[p].kind = kind /\ op[p].pc = pc


(***************************************************************************)
(* GET /api/mycase/oauth/callback                                          *)
(***************************************************************************)

\* the request arrives: error and code are the query parameters
MyCaseCallback_GET(p) ==
  /\ Free(p)
  /\ \E error \in BOOLEAN, code \in BOOLEAN :
       op' = [op EXCEPT ![p] =
                IF error THEN Respond(Begin("mycaseCallback", "start"), 200, "OAuth Error")
                ELSE IF ~code
                  THEN Respond(Begin("mycaseCallback", "start"), 200,
                               "No authorization code received")
                  ELSE Begin("mycaseCallback", "exchange")]
  /\ UNCHANGED <<now, mycase_oauth_tokens, google_oauth_tokens, v1_cases, auth_users, evidence_logs, evidence_files, dashboard>>

\* a rejected exchange followed by the save all the same
MyCaseCallback_Exchange_Proceed(p) ==
  /\ At(p, "mycaseCallback", "exchange")
  /\ \/ op' = [op EXCEPT ![p] = [@ EXCEPT !.pc = "upsert", !.nWrite = @ + 1]]
     \/ \E tokenData \in CodeData :
          op' = [op EXCEPT ![p] =
                   [@ EXCEPT !.pc = "upsert",
                             !.data = tokenData, !.refreshedAt = now,
                             !.tokens = [access_token |-> tokenData.access_token,
                                         refresh_token |-> tokenData.refresh_token,
                                         expires_at |-> ExpiresAt(now, tokenData.expires_in),
                                         user_id |-> Undef],
                             !.nWrite = @ + 1]]
  /\ UNCHANGED <<now, mycase_oauth_tokens, google_oauth_tokens, v1_cases, auth_users, evidence_logs, evidence_files, dashboard>>

\* the token endpoint answers the code exchange
MyCaseCallback_Exchange(p) ==
  /\ At(p, "mycaseCallback", "exchange")
  /\ \/ op' = [op EXCEPT ![p] = Respond(@, 200, "Token exchange failed")]
     \/ \E tokenData \in CodeData :
          op' = [op EXCEPT ![p] =
                   [@ EXCEPT !.pc = "upsert",
                             !.data = tokenData, !.refreshedAt = now,
                             !.tokens = [access_token |-> tokenData.access_token,
                                         refresh_token |-> tokenData.refresh_token,
                                         expires_at |-> ExpiresAt(now, tokenData.expires_in),
                                         user_id |-> Undef],
                             !.nWrite = @ + 1]]
  /\ UNCHANGED <<now, mycase_oauth_tokens, google_oauth_tokens, v1_cases, auth_users, evidence_logs, evidence_files, dashboard>>

\* the upsert's result; err is a storage error
MyCaseCallback_Upsert(p) ==
  /\ At(p, "mycaseCallback", "upsert")
  /\ \E err \in BOOLEAN :
       IF err \/ SingletonViolated(mycase_oauth_tokens)
         THEN /\ op' = [op EXCEPT ![p] = [@ EXCEPT !.pc = "insert", !.nWrite = @ + 1,
                                                   !.storageError = @ \/ err]]
              /\ UNCHANGED mycase_oauth_tokens
         ELSE /\ mycase_oauth_tokens' =
                   MyCaseInsert(mycase_oauth_tokens, op[p].tokens)
              /\ op' = [op EXCEPT ![p] = Respond(@, 200, "MyCase Connected Successfully")]
  /\ UNCHANGED <<now, google_oauth_tokens, v1_cases, auth_users, evidence_logs, evidence_files, dashboard>>

\* "Try insert if upsert fails"
MyCaseCallback_Insert(p) ==
  /\ At(p, "mycaseCallback", "insert")
  /\ \E err \in BOOLEAN :
       IF err \/ SingletonViolated(mycase_oauth_tokens)
         THEN /\ op' = [op EXCEPT ![p] =
                          Respond([@ EXCEPT !.storageError = @ \/ err], 200,
                                  "Failed to save tokens")]
              /\ UNCHANGED mycase_oauth_tokens
         ELSE /\ mycase_oauth_tokens' =
                   MyCaseInsert(mycase_oauth_tokens, op[p].tokens)
              /\ op' = [op EXCEPT ![p] = Respond(@, 200, "MyCase Connected Successfully")]
  /\ UNCHANGED <<now, google_oauth_tokens, v1_cases, auth_users, evidence_logs, evidence_files, dashboard>>

(***************************************************************************)
(* GET /api/google/oauth/callback (the handler that reads state)           *)
(***************************************************************************)

\* state values a callback may carry: a user id, none, or a string that is
\* no auth.users id
States == auth_users \cup {Undef, "nobody"}

GoogleCallback_GET(p) ==
  /\ Free(p)
  /\ \E error \in BOOLEAN, code \in BOOLEAN, state \in States :
       op' = [op EXCEPT ![p] =
                IF error
                  THEN Respond(Begin("googleCallback", "start"), 307, "/dashboard?google_error")
                ELSE IF ~code
                  THEN Respond(Begin("googleCallback", "start"), 307,
                               "/dashboard?google_error=no_code")
                ELSE IF state = Undef
                  THEN Respond(Begin("googleCallback", "start"), 307,
                               "/login?google_error=no_user_id")
                  ELSE [Begin("googleCallback", "exchange") EXCEPT !.userId = state,
                                                                   !.state = state]]
  /\ UNCHANGED <<now, mycase_oauth_tokens, google_oauth_tokens, v1_cases, auth_users, evidence_logs, evidence_files, dashboard>>

GoogleCallback_Exchange(p) ==
  /\ At(p, "googleCallback", "exchange")
  /\ \/ op' = [op EXCEPT ![p] = Respond(@, 307, "/dashboard?google_error")]
     \/ \E tokens \in CodeData :
          op' = [op EXCEPT ![p] =
                   [@ EXCEPT !.pc = "upsert",
                             !.data = tokens, !.refreshedAt = now,
                             !.tokens = [access_token |-> tokens.access_token,
                                         refresh_token |-> tokens.refresh_token,
                                         expires_at |-> ExpiresAt(now, tokens.expires_in),
                                         user_id |-> op[p].userId],
                             !.nWrite = @ + 1]]
  /\ UNCHANGED <<now, mycase_oauth_tokens, google_oauth_tokens, v1_cases, auth_users, evidence_logs, evidence_files, dashboard>>

\* the dbError of the upsert not looked at
GoogleCallback_Upsert_Ignore(p) ==
  /\ At(p, "googleCallback", "upsert")
  /\ \E err \in BOOLEAN :
       /\ google_oauth_tokens' =
            IF err \/ op[p].userId \notin auth_users THEN google_oauth_tokens
            ELSE GoogleUpsert(google_oauth_tokens, op[p].userId, op[p].tokens,
                              op[p].data.scope)
       /\ op' = [op EXCEPT ![p] =
                   Respond([@ EXCEPT !.storageError = err], 307,
                           "/dashboard?google_connected=true")]
  /\ UNCHANGED <<now, mycase_oauth_tokens, v1_cases, auth_users, evidence_logs, evidence_files, dashboard>>

\* user_id UUID REFERENCES auth.users(id): a state that is no user's id is
\* rejected by the database
GoogleCallback_Upsert(p) ==
  /\ At(p, "googleCallback", "upsert")
  /\ \E err \in BOOLEAN :
       IF err \/ op[p].userId \notin auth_users
         THEN /\ op' = [op EXCEPT ![p] =
                          Respond([@ EXCEPT !.storageError = err], 307,
                                  "/dashboard?google_error")]
              /\ UNCHANGED google_oauth_tokens
         ELSE /\ google_oauth_tokens' =
                   GoogleUpsert(google_oauth_tokens, op[p].userId, op[p].tokens,
                                op[p].data.scope)
              /\ op' = [op EXCEPT ![p] =
                          Respond(@, 307, "/dashboard?google_connected=true")]
  /\ UNCHANGED <<now, mycase_oauth_tokens, v1_cases, auth_users, evidence_logs, evidence_files, dashboard>>

(***************************************************************************)
(* GET /api/google/oauth/callback (the handler that reads the session      *)
(* cookie)                                                                 *)
(***************************************************************************)

\* what the sb-..-auth-token cookie may be: absent, a value that is no JWT
\* with a sub, or a JWT whose payload names sub (the signature is not
\* looked at)
Cookies == States \cup {"garbage"}

\* state is in the query and is not read
GoogleCookieCallback_GET(p) ==
  /\ Free(p)
  /\ \E error \in BOOLEAN, code \in BOOLEAN, state \in States :
       op' = [op EXCEPT ![p] =
                IF error
                  THEN Respond(Begin("googleCookieCallback", "start"), 307,
                               "/dashboard?google_error")
                ELSE IF ~code
                  THEN Respond(Begin("googleCookieCallback", "start"), 307,
                               "/dashboard?google_error=no_code")
                  ELSE [Begin("googleCookieCallback", "exchange") EXCEPT !.state = state]]
  /\ UNCHANGED <<now, mycase_oauth_tokens, google_oauth_tokens, v1_cases, auth_users, evidence_logs, evidence_files, dashboard>>

\* the token endpoint answers; the cookie is read and the upsert sent
GoogleCookieCallback_Exchange(p) ==
  /\ At(p, "googleCookieCallback", "exchange")
  /\ \/ op' = [op EXCEPT ![p] = Respond(@, 307, "/dashboard?google_error")]
     \/ \E tokens \in CodeData, authTokenCookie \in Cookies :
          op' = [op EXCEPT ![p] =
                   IF authTokenCookie = Undef
                     THEN Respond(@, 307, "/login?google_error=not_logged_in")
                   ELSE IF authTokenCookie = "garbage"
                     THEN Respond(@, 307, "/login?google_error=invalid_session")
                     ELSE [@ EXCEPT !.pc = "upsert",
                                    !.userId = authTokenCookie,
                                    !.data = tokens, !.refreshedAt = now,
                                    !.tokens = [access_token |-> tokens.access_token,
                                                refresh_token |-> tokens.refresh_token,
                                                expires_at |-> ExpiresAt(now, tokens.expires_in),
                                                user_id |-> authTokenCookie],
                                    !.nWrite = @ + 1]]
  /\ UNCHANGED <<now, mycase_oauth_tokens, google_oauth_tokens, v1_cases, auth_users, evidence_logs, evidence_files, dashboard>>

\* a dbError is thrown inside the try that parses the cookie
GoogleCookieCallback_Upsert(p) ==
  /\ At(p, "googleCookieCallback", "upsert")
  /\ \E err \in BOOLEAN :
       IF err \/ op[p].userId \notin auth_users
         THEN /\ op' = [op EXCEPT ![p] =
                          Respond([@ EXCEPT !.storageError = err], 307,
                                  "/login?google_error=invalid_session")]
              /\ UNCHANGED google_oauth_tokens
         ELSE /\ google_oauth_tokens' =
                   GoogleUpsert(google_oauth_tokens, op[p].userId, op[p].tokens,
                                op[p].data.scope)
              /\ op' = [op EXCEPT ![p] =
                          Respond(@, 307, "/dashboard?google_connected=true")]
  /\ UNCHANGED <<now, mycase_oauth_tokens, v1_cases, auth_users, evidence_logs, evidence_files, dashboard>>

(***************************************************************************)
(* GET /api/mycase/clients: list all cases                                 *)
(***************************************************************************)

\* the page requested with the access token of the record that was read
MyCaseClients_Fetch_Stale(o) ==
  [o EXCEPT !.pc = "page", !.pageCount = @ + 1, !.nApi = @ + 1,
            !.bearer = o.input.access_token,
            !.page_token = IF o.nextPageToken # <<>>
                             THEN PercentEncode(o.nextPageToken) ELSE <<>>,
            !.requested = Append(@, IF o.nextPageToken # <<>>
                                      THEN PercentEncode(o.nextPageToken) ELSE <<>>)]

\* the body of the do loop up to its fetch: a page of /v1/cases is
\* requested with tokens.access_token as the bearer, and with page_token set
\* when nextPageToken is
MyCaseClients_Fetch(o) ==
  [o EXCEPT !.pc = "page", !.pageCount = @ + 1, !.nApi = @ + 1,
            !.bearer = o.tokens.access_token,
            !.page_token = IF o.nextPageToken # <<>>
                             THEN PercentEncode(o.nextPageToken) ELSE <<>>,
            !.requested = Append(@, IF o.nextPageToken # <<>>
                                      THEN PercentEncode(o.nextPageToken) ELSE <<>>)]

\* tokens = await refreshTokenIfNeeded(tokens), up to its first await: a
\* record within the margin sends the refresh exchange, any other is returned
MyCaseClients_refreshTokenIfNeeded(o, tokens, t) ==
  LET called == [o EXCEPT !.tokens = tokens, !.input = tokens, !.calledAt = t]
  IN IF NeedsRefresh(tokens, t)
       THEN [called EXCEPT !.pc = "refresh", !.refresh = "pending", !.nExchange = @ + 1]
       ELSE MyCaseClients_Fetch([called EXCEPT !.refresh = "skipped"])

MyCaseClients_GET(p) ==
  /\ Free(p)
  /\ op' = [op EXCEPT ![p] = Begin("mycaseClients", "select")]
  /\ UNCHANGED <<now, mycase_oauth_tokens, google_oauth_tokens, v1_cases, auth_users, evidence_logs, evidence_files, dashboard>>

\* .from('mycase_oauth_tokens').select('*').single() returns; err is a
\* storage error
MyCaseClients_Select(p) ==
  /\ At(p, "mycaseClients", "select")
  /\ \E err \in BOOLEAN :
       op' = [op EXCEPT ![p] =
                IF SingleOk(mycase_oauth_tokens, err)
                  THEN LET tokenData == TheRow(mycase_oauth_tokens)
                       IN MyCaseClients_refreshTokenIfNeeded(@,
                            [access_token |-> tokenData.access_token,
                             refresh_token |-> tokenData.refresh_token,
                             expires_at |-> tokenData.expires_at,
                             user_id |-> Undef], now)
                  ELSE NotConnected([@ EXCEPT !.storageError = err],
                                    "/api/mycase/oauth/start")]
  /\ UNCHANGED <<now, mycase_oauth_tokens, google_oauth_tokens, v1_cases, auth_users, evidence_logs, evidence_files, dashboard>>

\* a rejected exchange answered by going on with the record given
MyCaseClients_Refresh_Swallow(p) ==
  /\ At(p, "mycaseClients", "refresh")
  /\ \/ op' = [op EXCEPT ![p] = MyCaseClients_Fetch([@ EXCEPT !.refresh = "failed"])]
     \/ \E data \in RefreshData :
          op' = [op EXCEPT ![p] =
                   [@ EXCEPT !.pc = "selectId", !.data = data, !.refreshedAt = now,
                             !.tokens = MyCaseNewTokens(op[p].tokens, data, now)]]
  /\ UNCHANGED <<now, mycase_oauth_tokens, google_oauth_tokens, v1_cases, auth_users, evidence_logs, evidence_files, dashboard>>

\* the token endpoint answers the refresh exchange
MyCaseClients_Refresh(p) ==
  /\ At(p, "mycaseClients", "refresh")
  /\ \/ op' = [op EXCEPT ![p] =
                 Respond([@ EXCEPT !.refresh = "failed"], 500, "Failed to refresh token")]
     \/ \E data \in RefreshData :
          op' = [op EXCEPT ![p] =
                   [@ EXCEPT !.pc = "selectId", !.data = data, !.refreshedAt = now,
                             !.tokens = MyCaseNewTokens(op[p].tokens, data, now)]]
  /\ UNCHANGED <<now, mycase_oauth_tokens, google_oauth_tokens, v1_cases, auth_users, evidence_logs, evidence_files, dashboard>>

\* (await supabase.from('mycase_oauth_tokens').select('id').single()).data?.id
MyCaseClients_SelectId(p) ==
  /\ At(p, "mycaseClients", "selectId")
  /\ \E err \in BOOLEAN :
       op' = [op EXCEPT ![p] =
                [@ EXCEPT !.pc = "update", !.nWrite = @ + 1,
                          !.storageError = err,
                          !.rowId = IF SingleOk(mycase_oauth_tokens, err)
                                      THEN TheRow(mycase_oauth_tokens).id ELSE 0]]
  /\ UNCHANGED <<now, mycase_oauth_tokens, google_oauth_tokens, v1_cases, auth_users, evidence_logs, evidence_files, dashboard>>

\* await ...update({..}).eq('id', id): the result is not looked at
MyCaseClients_Update(p) ==
  /\ At(p, "mycaseClients", "update")
  /\ \E err \in BOOLEAN :
       /\ mycase_oauth_tokens' =
            IF err THEN mycase_oauth_tokens
            ELSE MyCaseUpdate(mycase_oauth_tokens, op[p].rowId, op[p].tokens)
       /\ op' = [op EXCEPT ![p] =
                   MyCaseClients_Fetch([@ EXCEPT !.refresh = "done",
                                                 !.storageError = @ \/ err])]
  /\ UNCHANGED <<now, google_oauth_tokens, v1_cases, auth_users, evidence_logs, evidence_files, dashboard>>

\* the authority answers the request: not ok (always when it does not know
\* the token), or a page of cases whose Link header names the next page;
\* the loop goes on while the header gave a token, and the handler then
\* answers with all cases mapped and sorted
\* a page request that failed sent again
MyCaseClients_Page_Retry(p) ==
  /\ At(p, "mycaseClients", "page")
  /\ LET k == PageFor(v1_cases, op[p].page_token)
     IN \/ \E status \in ApiErrors :
             op' = [op EXCEPT ![p] =
                      IF op[p].nApi <= MaxPages
                        THEN [@ EXCEPT !.nApi = @ + 1,
                                       !.requested = Append(@, op[p].page_token)]
                        ELSE Respond(Rejected(@, status), 500, "MyCase API error")]
        \/ /\ k # 0
           /\ LET allCases      == op[p].allCases \o v1_cases[k].cases
                  nextPageToken == LinkNextToken(v1_cases, k)
                  o == [op[p] EXCEPT !.allCases = allCases,
                                     !.nextPageToken = nextPageToken]
              IN op' = [op EXCEPT ![p] =
                          IF nextPageToken # <<>> THEN MyCaseClients_Fetch(o)
                          ELSE Respond([o EXCEPT !.clients = SortByUpdatedAt(allCases)],
                                       200, "clients")]
  /\ UNCHANGED <<now, mycase_oauth_tokens, google_oauth_tokens, v1_cases, auth_users, evidence_logs, evidence_files, dashboard>>

MyCaseClients_Page(p) ==
  /\ At(p, "mycaseClients", "page")
  /\ LET k == PageFor(v1_cases, op[p].page_token)
     IN \/ \E status \in ApiErrors :
             op' = [op EXCEPT ![p] = Respond(Rejected(@, status), 500, "MyCase API error")]
        \/ /\ k # 0
           /\ LET allCases      == op[p].allCases \o v1_cases[k].cases
                  nextPageToken == LinkNextToken(v1_cases, k)
                  o == [op[p] EXCEPT !.allCases = allCases,
                                     !.nextPageToken = nextPageToken]
              IN op' = [op EXCEPT ![p] =
                          IF nextPageToken # <<>> THEN MyCaseClients_Fetch(o)
                          ELSE Respond([o EXCEPT !.clients = SortByUpdatedAt(allCases)],
                                       200, "clients")]
  /\ UNCHANGED <<now, mycase_oauth_tokens, google_oauth_tokens, v1_cases, auth_users, evidence_logs, evidence_files, dashboard>>

(***************************************************************************)
(* POST /api/google/drive/upload                                           *)
(***************************************************************************)

\* the handler from the return of refreshTokenIfNeeded on
\* file and folderId are the form's fields, read here
GoogleUpload_Fetch(o, file, folderId) ==
  IF ~file THEN Respond(o, 400, "No file provided")
  ELSE IF ~folderId THEN Respond(o, 400, "No folder ID provided")
  ELSE [o EXCEPT !.pc = "upload", !.nApi = @ + 1,
                 !.bearer = o.tokens.access_token]

GoogleUpload_refreshTokenIfNeeded(o, tokens, t, file, folderId) ==
  LET called == [o EXCEPT !.tokens = tokens, !.input = tokens, !.calledAt = t]
  IN IF NeedsRefresh(tokens, t)
       THEN [called EXCEPT !.pc = "refresh", !.refresh = "pending", !.nExchange = @ + 1]
       ELSE GoogleUpload_Fetch([called EXCEPT !.refresh = "skipped"], file, folderId)

\* the form is parsed: userId is its field
GoogleUpload_POST(p) ==
  /\ Free(p)
  /\ \E userId \in auth_users \cup {Undef} :
       op' = [op EXCEPT ![p] =
                IF userId = Undef
                  THEN Respond(Begin("googleUpload", "start"), 401, "Not authenticated")
                  ELSE [Begin("googleUpload", "select") EXCEPT !.userId = userId]]
  /\ UNCHANGED <<now, mycase_oauth_tokens, google_oauth_tokens, v1_cases, auth_users, evidence_logs, evidence_files, dashboard>>

\* .from('google_oauth_tokens').select('*').eq('user_id', userId).single()
GoogleUpload_Select(p) ==
  /\ At(p, "googleUpload", "select")
  /\ \E err \in BOOLEAN, file \in BOOLEAN, folderId \in BOOLEAN :
       LET rows == {r \in google_oauth_tokens : r.user_id = op[p].userId}
       IN op' = [op EXCEPT ![p] =
                   IF SingleOk(rows, err)
                     THEN LET tokenData == TheRow(rows)
                          IN GoogleUpload_refreshTokenIfNeeded(@,
                               [access_token |-> tokenData.access_token,
                                refresh_token |-> tokenData.refresh_token,
                                expires_at |-> tokenData.expires_at,
                                user_id |-> tokenData.user_id], now, file, folderId)
                     ELSE NotConnected([@ EXCEPT !.storageError = err],
                                       "/api/google/oauth/start")]
  /\ UNCHANGED <<now, mycase_oauth_tokens, google_oauth_tokens, v1_cases, auth_users, evidence_logs, evidence_files, dashboard>>

\* a rejected exchange sent once more before giving up
GoogleUpload_Refresh_Retry(p) ==
  /\ At(p, "googleUpload", "refresh")
  /\ \/ op' = [op EXCEPT ![p] =
                 IF op[p].nExchange < 2
                   THEN [@ EXCEPT !.nExchange = @ + 1]
                   ELSE Respond([@ EXCEPT !.refresh = "failed"], 500,
                                "Failed to refresh token")]
     \/ \E data \in RefreshData :
          op' = [op EXCEPT ![p] =
                   [@ EXCEPT !.pc = "update", !.data = data, !.refreshedAt = now,
                             !.nWrite = @ + 1,
                             !.tokens = GoogleNewTokens(op[p].tokens, data, now)]]
  /\ UNCHANGED <<now, mycase_oauth_tokens, google_oauth_tokens, v1_cases, auth_users, evidence_logs, evidence_files, dashboard>>

\* the token endpoint answers the refresh exchange
GoogleUpload_Refresh(p) ==
  /\ At(p, "googleUpload", "refresh")
  /\ \/ op' = [op EXCEPT ![p] =
                 Respond([@ EXCEPT !.refresh = "failed"], 500, "Failed to refresh token")]
     \/ \E data \in RefreshData :
          op' = [op EXCEPT ![p] =
                   [@ EXCEPT !.pc = "update", !.data = data, !.refreshedAt = now,
                             !.nWrite = @ + 1,
                             !.tokens = GoogleNewTokens(op[p].tokens, data, now)]]
  /\ UNCHANGED <<now, mycase_oauth_tokens, google_oauth_tokens, v1_cases, auth_users, evidence_logs, evidence_files, dashboard>>

\* await ...update({..}).eq('user_id', tokens.user_id): the result is not
\* looked at
GoogleUpload_Update(p) ==
  /\ At(p, "googleUpload", "update")
  /\ \E err \in BOOLEAN, file \in BOOLEAN, folderId \in BOOLEAN :
       /\ google_oauth_tokens' =
            IF err THEN google_oauth_tokens
            ELSE GoogleUpdate(google_oauth_tokens, op[p].tokens.user_id,
                              op[p].data.access_token, op[p].tokens.expires_at)
       /\ op' = [op EXCEPT ![p] =
                   GoogleUpload_Fetch([@ EXCEPT !.refresh = "done",
                                                !.storageError = err],
                                      file, folderId)]
  /\ UNCHANGED <<now, mycase_oauth_tokens, v1_cases, auth_users, evidence_logs, evidence_files, dashboard>>

\* the upload endpoint answers
GoogleUpload_Upload(p) ==
  /\ At(p, "googleUpload", "upload")
  /\ \/ \E status \in ApiErrors :
          op' = [op EXCEPT ![p] = Respond(Rejected(@, status), 500, "Failed to upload file")]
     \/ op' = [op EXCEPT ![p] = Respond(@, 200, "success")]
  /\ UNCHANGED <<now, mycase_oauth_tokens, google_oauth_tokens, v1_cases, auth_users, evidence_logs, evidence_files, dashboard>>

(***************************************************************************)
(* GET /api/mycase/clients/search: clients by name with their cases        *)
(***************************************************************************)

\* what /v1/clients may answer to a name filter: clients by id
ClientPages == {<<>>, <<1>>, <<1, 2>>}
\* what /v1/clients/{id}/cases answers: the ids of the client's cases
ClientCases == <<<<1, 3>>, <<2>>>>

\* every client of an answer pushed
Deduplicate_Push(allClients, clients) == allClients \o clients

\* for (const client of clients) if (!clientIds.has(client.id)) { add; push }
RECURSIVE Deduplicate(_, _)
Deduplicate(allClients, clients) ==
  IF clients = <<>> THEN allClients
  ELSE Deduplicate(IF \E i \in DOMAIN allClients : allClients[i] = Head(clients)
                     THEN allClients ELSE Append(allClients, Head(clients)),
                   Tail(clients))

\* the loop over allClients from the client after cursor on: its cases are
\* requested, or the sorted results are the response
MyCaseSearch_FetchCases(o) ==
  IF o.cursor < Len(o.allClients)
    THEN [o EXCEPT !.pc = "cases", !.cursor = @ + 1, !.nApi = @ + 1,
                   !.bearer = o.tokens.access_token]
    ELSE Respond([o EXCEPT !.clients = SortByUpdatedAt(o.results)], 200, "clients")

\* the loop over searchUrls: the next search is requested, or the loop
\* over the clients found begins.  refreshTokenIfNeeded has returned: of
\* its locals the handler holds the record returned
MyCaseSearch_Fetch(o) ==
  LET returned == [o EXCEPT !.calledAt = 0, !.refreshedAt = 0, !.rowId = 0]
  IN IF o.searchUrls > 0
       THEN [returned EXCEPT !.pc = "search", !.nApi = @ + 1,
                             !.bearer = o.tokens.access_token]
       ELSE MyCaseSearch_FetchCases(returned)

MyCaseSearch_refreshTokenIfNeeded(o, tokens, t) ==
  LET called == [o EXCEPT !.tokens = tokens, !.input = tokens, !.calledAt = t]
  IN IF NeedsRefresh(tokens, t)
       THEN [called EXCEPT !.pc = "refresh", !.refresh = "pending", !.nExchange = @ + 1]
       ELSE MyCaseSearch_Fetch([called EXCEPT !.refresh = "skipped"])

\* words is the number of words of the query: none answers at once, one
\* searches by first name, more by first and by last name
MyCaseSearch_GET(p) ==
  /\ Free(p)
  /\ \E words \in 0..2 :
       op' = [op EXCEPT ![p] =
                IF words = 0 THEN Respond(Begin("mycaseSearch", "start"), 200, "clients")
                ELSE [Begin("mycaseSearch", "select") EXCEPT !.searchUrls = words]]
  /\ UNCHANGED <<now, mycase_oauth_tokens, google_oauth_tokens, v1_cases, auth_users, evidence_logs, evidence_files, dashboard>>

MyCaseSearch_Select(p) ==
  /\ At(p, "mycaseSearch", "select")
  /\ \E err \in BOOLEAN :
       op' = [op EXCEPT ![p] =
                IF SingleOk(mycase_oauth_tokens, err)
                  THEN LET tokenData == TheRow(mycase_oauth_tokens)
                       IN MyCaseSearch_refreshTokenIfNeeded(@,
                            [access_token |-> tokenData.access_token,
                             refresh_token |-> tokenData.refresh_token,
                             expires_at |-> tokenData.expires_at,
                             user_id |-> Undef], now)
                  ELSE NotConnected([@ EXCEPT !.storageError = err],
                                    "/api/mycase/oauth/start")]
  /\ UNCHANGED <<now, mycase_oauth_tokens, google_oauth_tokens, v1_cases, auth_users, evidence_logs, evidence_files, dashboard>>

MyCaseSearch_Refresh(p) ==
  /\ At(p, "mycaseSearch", "refresh")
  /\ \/ op' = [op EXCEPT ![p] =
                 Respond([@ EXCEPT !.refresh = "failed"], 500, "Failed to refresh token")]
     \/ \E data \in RefreshData :
          op' = [op EXCEPT ![p] =
                   [@ EXCEPT !.pc = "selectId", !.data = data, !.refreshedAt = now,
                             !.tokens = MyCaseNewTokens(op[p].tokens, data, now)]]
  /\ UNCHANGED <<now, mycase_oauth_tokens, google_oauth_tokens, v1_cases, auth_users, evidence_logs, evidence_files, dashboard>>

MyCaseSearch_SelectId(p) ==
  /\ At(p, "mycaseSearch", "selectId")
  /\ \E err \in BOOLEAN :
       op' = [op EXCEPT ![p] =
                [@ EXCEPT !.pc = "update", !.nWrite = @ + 1,
                          !.storageError = err,
                          !.rowId = IF SingleOk(mycase_oauth_tokens, err)
                                      THEN TheRow(mycase_oauth_tokens).id ELSE 0]]
  /\ UNCHANGED <<now, mycase_oauth_tokens, google_oauth_tokens, v1_cases, auth_users, evidence_logs, evidence_files, dashboard>>

MyCaseSearch_Update(p) ==
  /\ At(p, "mycaseSearch", "update")
  /\ \E err \in BOOLEAN :
       /\ mycase_oauth_tokens' =
            IF err THEN mycase_oauth_tokens
            ELSE MyCaseUpdate(mycase_oauth_tokens, op[p].rowId, op[p].tokens)
       /\ op' = [op EXCEPT ![p] =
                   MyCaseSearch_Fetch([@ EXCEPT !.refresh = "done",
                                                !.storageError = @ \/ err])]
  /\ UNCHANGED <<now, google_oauth_tokens, v1_cases, auth_users, evidence_logs, evidence_files, dashboard>>

\* /v1/clients answers a search: not ok is logged and skipped
MyCaseSearch_Search(p) ==
  /\ At(p, "mycaseSearch", "search")
  /\ \/ \E status \in ApiErrors :
          op' = [op EXCEPT ![p] =
                   MyCaseSearch_Fetch([Rejected(@, status) EXCEPT !.searchUrls = @ - 1])]
     \/ \E clients \in ClientPages :
          op' = [op EXCEPT ![p] =
                   MyCaseSearch_Fetch([@ EXCEPT !.searchUrls = @ - 1,
                                                !.allClients = Deduplicate(@, clients)])]
  /\ UNCHANGED <<now, mycase_oauth_tokens, google_oauth_tokens, v1_cases, auth_users, evidence_logs, evidence_files, dashboard>>

\* /v1/clients/{id}/cases answers: not ok is logged and skipped
MyCaseSearch_Cases(p) ==
  /\ At(p, "mycaseSearch", "cases")
  /\ \/ \E status \in ApiErrors :
          op' = [op EXCEPT ![p] = MyCaseSearch_FetchCases(Rejected(@, status))]
     \/ op' = [op EXCEPT ![p] =
                 MyCaseSearch_FetchCases(
                   [@ EXCEPT !.results = @ \o ClientCases[op[p].allClients[op[p].cursor]]])]
  /\ UNCHANGED <<now, mycase_oauth_tokens, google_oauth_tokens, v1_cases, auth_users, evidence_logs, evidence_files, dashboard>>

(***************************************************************************)
(* GET /api/google/drive/folders                                           *)
(***************************************************************************)

GoogleFolders_Fetch(o) ==
  [o EXCEPT !.pc = "list", !.nApi = @ + 1, !.bearer = o.tokens.access_token,
            !.calledAt = 0, !.refreshedAt = 0]

GoogleFolders_refreshTokenIfNeeded(o, tokens, t) ==
  LET called == [o EXCEPT !.tokens = tokens, !.input = tokens, !.calledAt = t]
  IN IF NeedsRefresh(tokens, t)
       THEN [called EXCEPT !.pc = "refresh", !.refresh = "pending", !.nExchange = @ + 1]
       ELSE GoogleFolders_Fetch([called EXCEPT !.refresh = "skipped"])

\* the session cookie is looked up
GoogleFolders_GET(p) ==
  /\ Free(p)
  /\ \E accessToken \in BOOLEAN :
       op' = [op EXCEPT ![p] =
                IF ~accessToken
                  THEN Respond(Begin("googleFolders", "start"), 401, "Not authenticated")
                  ELSE Begin("googleFolders", "getUser")]
  /\ UNCHANGED <<now, mycase_oauth_tokens, google_oauth_tokens, v1_cases, auth_users, evidence_logs, evidence_files, dashboard>>

\* supabase.auth.getUser(accessToken.value) answers
GoogleFolders_GetUser(p) ==
  /\ At(p, "googleFolders", "getUser")
  /\ \E user \in auth_users \cup {Undef} :
       op' = [op EXCEPT ![p] =
                IF user = Undef THEN Respond(@, 401, "Not authenticated")
                ELSE [@ EXCEPT !.pc = "select", !.userId = user]]
  /\ UNCHANGED <<now, mycase_oauth_tokens, google_oauth_tokens, v1_cases, auth_users, evidence_logs, evidence_files, dashboard>>

GoogleFolders_Select(p) ==
  /\ At(p, "googleFolders", "select")
  /\ \E err \in BOOLEAN :
       LET rows == {r \in google_oauth_tokens : r.user_id = op[p].userId}
       IN op' = [op EXCEPT ![p] =
                   IF SingleOk(rows, err)
                     THEN LET tokenData == TheRow(rows)
                          IN GoogleFolders_refreshTokenIfNeeded(@,
                               [access_token |-> tokenData.access_token,
                                refresh_token |-> tokenData.refresh_token,
                                expires_at |-> tokenData.expires_at,
                                user_id |-> tokenData.user_id], now)
                     ELSE NotConnected([@ EXCEPT !.storageError = err],
                                       "/api/google/oauth/start")]
  /\ UNCHANGED <<now, mycase_oauth_tokens, google_oauth_tokens, v1_cases, auth_users, evidence_logs, evidence_files, dashboard>>

GoogleFolders_Refresh(p) ==
  /\ At(p, "googleFolders", "refresh")
  /\ \/ op' = [op EXCEPT ![p] =
                 Respond([@ EXCEPT !.refresh = "failed"], 500, "Failed to refresh token")]
     \/ \E data \in RefreshData :
          op' = [op EXCEPT ![p] =
                   [@ EXCEPT !.pc = "update", !.data = data, !.refreshedAt = now,
                             !.nWrite = @ + 1,
                             !.tokens = GoogleNewTokens(op[p].tokens, data, now)]]
  /\ UNCHANGED <<now, mycase_oauth_tokens, google_oauth_tokens, v1_cases, auth_users, evidence_logs, evidence_files, dashboard>>

GoogleFolders_Update(p) ==
  /\ At(p, "googleFolders", "update")
  /\ \E err \in BOOLEAN :
       /\ google_oauth_tokens' =
            IF err THEN google_oauth_tokens
            ELSE GoogleUpdate(google_oauth_tokens, op[p].tokens.user_id,
                              op[p].data.access_token, op[p].tokens.expires_at)
       /\ op' = [op EXCEPT ![p] =
                   GoogleFolders_Fetch([@ EXCEPT !.refresh = "done",
                                                 !.storageError = err])]
  /\ UNCHANGED <<now, mycase_oauth_tokens, v1_cases, auth_users, evidence_logs, evidence_files, dashboard>>

\* /drive/v3/files answers
GoogleFolders_List(p) ==
  /\ At(p, "googleFolders", "list")
  /\ \/ \E status \in ApiErrors :
          op' = [op EXCEPT ![p] = Respond(Rejected(@, status), 500, "Google Drive API error")]
     \/ op' = [op EXCEPT ![p] = Respond(@, 200, "folders")]
  /\ UNCHANGED <<now, mycase_oauth_tokens, google_oauth_tokens, v1_cases, auth_users, evidence_logs, evidence_files, dashboard>>

(***************************************************************************)
(* The evidence form of the dashboard: handleSubmit                        *)
(***************************************************************************)

server == <<now, mycase_oauth_tokens, google_oauth_tokens, op, v1_cases, auth_users>>

\* the greatest element of a sequence of numbers, 0 for none
Last(seq) == IF seq = <<>> THEN 0 ELSE seq[Len(seq)]

\* a file is picked and goes behind those of the form
handleFileSelect ==
  /\ Len(dashboard.files) < MaxFiles
  /\ \E file \in FileIds :
       /\ file > Last(dashboard.files)
       /\ dashboard' = [dashboard EXCEPT !.files = Append(@, file)]
  /\ UNCHANGED <<server, evidence_logs, evidence_files>>

\* prevFiles.filter((_, i) => i !== index)
removeFile ==
  /\ \E index \in DOMAIN dashboard.files :
       dashboard' = [dashboard EXCEPT !.files =
                       SubSeq(@, 1, index - 1) \o SubSeq(@, index + 1, Len(@))]
  /\ UNCHANGED <<server, evidence_logs, evidence_files>>

\* catch (err) { setError(..) } finally { setLoading(false) }
Submit_Throw(d) ==
  [d EXCEPT !.loading = FALSE, !.submit.pc = "done", !.submit.error = TRUE]

\* the loop 'for (const uploadFile of files)' from the file after cursor
\* on: it is sent to the upload route, or the form is reset
Submit_Next(d) ==
  IF d.submit.cursor < Len(d.submit.files)
    THEN [d EXCEPT !.submit.pc = "upload", !.submit.cursor = @ + 1,
                   !.submit.requests = Append(@, d.submit.files[d.submit.cursor + 1])]
    ELSE [d EXCEPT !.loading = FALSE, !.files = <<>>, !.submit.pc = "done"]

\* the form is submitted; the button is disabled while loading
handleSubmit ==
  /\ ~dashboard.loading
  /\ Cardinality(evidence_logs) < Cardinality(LogIds)
  /\ \E selectedClient \in BOOLEAN, selectedFolder \in BOOLEAN :
       dashboard' =
         LET d == [dashboard EXCEPT !.loading = TRUE,
                                    !.submit = [NoSubmit EXCEPT !.files = dashboard.files]]
         IN IF ~selectedClient \/ ~selectedFolder \/ dashboard.files = <<>>
              THEN Submit_Throw(d)
              ELSE [d EXCEPT !.submit.pc = "insertLog"]
  /\ UNCHANGED <<server, evidence_logs, evidence_files>>

\* .from('evidence_logs').insert({..}).select().single() answers
Submit_InsertLog ==
  /\ dashboard.submit.pc = "insertLog"
  /\ \E logError \in BOOLEAN :
       IF logError
         THEN /\ dashboard' = Submit_Throw(dashboard)
              /\ UNCHANGED evidence_logs
         ELSE LET id == CHOOSE n \in LogIds : n \notin evidence_logs
              IN /\ evidence_logs' = evidence_logs \cup {id}
                 /\ dashboard' = Submit_Next([dashboard EXCEPT !.submit.logData = id])
  /\ UNCHANGED <<server, evidence_files>>

\* a failed upload left behind, the loop going on with the next file
Submit_Upload_Continue ==
  /\ dashboard.submit.pc = "upload"
  /\ \/ dashboard' =
          IF dashboard.submit.cursor < Len(dashboard.submit.files)
            THEN Submit_Next(dashboard)
            ELSE Submit_Throw(dashboard)
     \/ dashboard' =
          [dashboard EXCEPT !.submit.pc = "insertFile",
                            !.submit.uploadedFiles =
                               Append(@, dashboard.submit.files[dashboard.submit.cursor])]
  /\ UNCHANGED <<server, evidence_logs, evidence_files>>

\* /api/google/drive/upload answers
Submit_Upload ==
  /\ dashboard.submit.pc = "upload"
  /\ \/ dashboard' = Submit_Throw(dashboard)
     \/ dashboard' =
          [dashboard EXCEPT !.submit.pc = "insertFile",
                            !.submit.uploadedFiles =
                               Append(@, dashboard.submit.files[dashboard.submit.cursor])]
  /\ UNCHANGED <<server, evidence_logs, evidence_files>>

\* .from('evidence_files').insert({evidence_log_id: logData.id, ..}) answers:
\* a fileError is logged and the loop goes on
Submit_InsertFile ==
  /\ dashboard.submit.pc = "insertFile"
  /\ \E fileError \in BOOLEAN :
       evidence_files' =
         IF fileError THEN evidence_files
         ELSE Append(evidence_files,
                     [evidence_log_id |-> dashboard.submit.logData,
                      file_name |-> dashboard.submit.files[dashboard.submit.cursor]])
  /\ dashboard' = Submit_Next(dashboard)
  /\ UNCHANGED <<server, evidence_logs>>

(***************************************************************************)
(* The client search of the dashboard                                      *)
(***************************************************************************)

\* /[\d-]/.test(query) || /^[A-Z]\d/.test(query)
isCaseNumberQuery(query) == query \in Queries

\* searchByCaseNumber up to its await, in a closure that holds cacheLoaded:
\* the list of all cases is requested, or the cached list is filtered
searchByCaseNumber(d, cacheLoaded) ==
  IF ~cacheLoaded
    THEN [d EXCEPT !.loadingClients = TRUE, !.fetching = @ + 1, !.nFetch = @ + 1]
    ELSE [d EXCEPT !.loadingClients = FALSE]

\* searchByClientName up to its await
searchByClientName(d) ==
  [d EXCEPT !.loadingClients = TRUE, !.searching = @ + 1]

\* the session has sent fewer than MaxFetches requests of the kind the
\* search of this query sends
Sendable(query, cacheLoaded) ==
  IF isCaseNumberQuery(query)
    THEN cacheLoaded \/ dashboard.nFetch < MaxFetches
    ELSE dashboard.searching < MaxFetches

\* the search box changes.  The effect of [clientSearch] runs: the timer of
\* the render before is cleared, and for a query a timer is set whose
\* callback is of this render
setClientSearch ==
  /\ \E value \in Queries \cup Names \cup {""} :
       /\ value # dashboard.clientSearch
       /\ dashboard' =
            [dashboard EXCEPT
               !.clientSearch = value,
               !.timeoutId = IF value = "" THEN NoTimeout
                             ELSE [set |-> TRUE, query |-> value,
                                   cacheLoaded |-> dashboard.cacheLoaded]]
  /\ UNCHANGED <<server, evidence_logs, evidence_files>>

\* 500 ms have passed: the callback of the timer runs
Timeout ==
  /\ dashboard.timeoutId.set
  /\ Sendable(dashboard.timeoutId.query, dashboard.timeoutId.cacheLoaded)
  /\ dashboard' =
       LET d == [dashboard EXCEPT !.timeoutId = NoTimeout]
       IN IF isCaseNumberQuery(dashboard.timeoutId.query)
            THEN searchByCaseNumber(d, dashboard.timeoutId.cacheLoaded)
            ELSE searchByClientName(d)
  /\ UNCHANGED <<server, evidence_logs, evidence_files>>

\* the Refresh button, disabled while loadingClients: its handler is of
\* the last render
fetchMyCaseClients ==
  /\ ~dashboard.loadingClients
  /\ dashboard.clientSearch # ""
  /\ Sendable(dashboard.clientSearch, dashboard.cacheLoaded)
  /\ dashboard' =
       IF isCaseNumberQuery(dashboard.clientSearch)
         THEN searchByCaseNumber(dashboard, dashboard.cacheLoaded)
         ELSE searchByClientName(dashboard)
  /\ UNCHANGED <<server, evidence_logs, evidence_files>>

\* /api/mycase/clients answers a call of searchByCaseNumber
Search_Clients ==
  /\ dashboard.fetching > 0
  /\ \E ok \in BOOLEAN :
       dashboard' =
         IF ok
           THEN [dashboard EXCEPT !.fetching = @ - 1, !.loadingClients = FALSE,
                                  !.allCasesCache = <<1, 2>>, !.cacheLoaded = TRUE]
           ELSE [dashboard EXCEPT !.fetching = @ - 1, !.loadingClients = FALSE]
  /\ UNCHANGED <<server, evidence_logs, evidence_files>>

\* /api/mycase/search-clients answers a call of searchByClientName
Search_SearchClients ==
  /\ dashboard.searching > 0
  /\ dashboard' = [dashboard EXCEPT !.searching = @ - 1, !.loadingClients = FALSE]
  /\ UNCHANGED <<server, evidence_logs, evidence_files>>

(***************************************************************************)
(* GET /api/google/oauth/start                                             *)
(***************************************************************************)

\* the handler has no await.  authTokenCookie is the sub of the payload of
\* the sb-..-auth-token cookie, which is decoded and not verified; the id
\* is one character of the URL here
GoogleStart_GET(p) ==
  /\ Free(p)
  /\ \E configured \in BOOLEAN, authTokenCookie \in Cookies :
       op' = [op EXCEPT ![p] =
                IF ~configured
                  THEN Respond(Begin("googleStart", "start"), 500,
                               "Google OAuth not configured")
                ELSE IF authTokenCookie = Undef
                  THEN Respond(Begin("googleStart", "start"), 307,
                               "/login?error=not_logged_in")
                ELSE IF authTokenCookie = "garbage"
                  THEN Respond(Begin("googleStart", "start"), 307,
                               "/login?error=invalid_session")
                  ELSE Respond([Begin("googleStart", "start") EXCEPT
                                  !.userId = authTokenCookie,
                                  !.authUrlState = PercentEncode(<<authTokenCookie>>)],
                               307, "https://accounts.google.com/o/oauth2/v2/auth")]
  /\ UNCHANGED <<now, mycase_oauth_tokens, google_oauth_tokens, v1_cases, auth_users, evidence_logs, evidence_files, dashboard>>

(***************************************************************************)
(* DELETE /api/admin/users                                                 *)
(***************************************************************************)

AdminUsers_DELETE(p) ==
  /\ Free(p)
  /\ \E userId \in auth_users \cup {Undef} :
       op' = [op EXCEPT ![p] =
                IF userId = Undef
                  THEN Respond(Begin("adminUsers", "start"), 400, "User ID is required")
                  ELSE [Begin("adminUsers", "deleteUser") EXCEPT !.userId = userId]]
  /\ UNCHANGED <<now, mycase_oauth_tokens, google_oauth_tokens, v1_cases, auth_users, evidence_logs, evidence_files, dashboard>>

\* supabaseAdmin.auth.admin.deleteUser(userId) answers.  The rows of
\* google_oauth_tokens that reference the user go with it:
\* user_id UUID REFERENCES auth.users(id) ON DELETE CASCADE
AdminUsers_DeleteUser(p) ==
  /\ At(p, "adminUsers", "deleteUser")
  /\ \E error \in BOOLEAN :
       IF error \/ op[p].userId \notin auth_users
         THEN /\ op' = [op EXCEPT ![p] = Respond(@, 500, "error")]
              /\ UNCHANGED <<auth_users, google_oauth_tokens>>
         ELSE /\ auth_users' = auth_users \ {op[p].userId}
              /\ google_oauth_tokens' =
                   {r \in google_oauth_tokens : r.user_id # op[p].userId}
              /\ op' = [op EXCEPT ![p] = Respond(@, 200, "success")]
  /\ UNCHANGED <<now, mycase_oauth_tokens, v1_cases, evidence_logs, evidence_files,
                 dashboard>>

\* the clock; no handler holds it back
Tick ==
  /\ now < MaxNow
  /\ now' = now + 1
  /\ UNCHANGED <<mycase_oauth_tokens, google_oauth_tokens, op, v1_cases, auth_users, evidence_logs, evidence_files, dashboard>>

Next ==
  \/ Tick
  \/ \E p \in Sequential :
       \/ MyCaseCallback_GET(p)
       \/ MyCaseCallback_Exchange(p)
       \/ MyCaseCallback_Upsert(p)
       \/ MyCaseCallback_Insert(p)
       \/ GoogleCallback_GET(p)
       \/ GoogleCallback_Exchange(p)
       \/ GoogleCallback_Upsert(p)
       \/ GoogleCookieCallback_GET(p)
       \/ GoogleCookieCallback_Exchange(p)
       \/ GoogleCookieCallback_Upsert(p)
       \/ MyCaseClients_GET(p)
       \/ MyCaseClients_Select(p)
       \/ MyCaseClients_Refresh(p)
       \/ MyCaseClients_SelectId(p)
       \/ MyCaseClients_Update(p)
       \/ MyCaseClients_Page(p)
       \/ GoogleUpload_POST(p)
       \/ GoogleUpload_Select(p)
       \/ GoogleUpload_Refresh(p)
       \/ GoogleUpload_Update(p)
       \/ GoogleUpload_Upload(p)
       \/ MyCaseSearch_GET(p)
       \/ MyCaseSearch_Select(p)
       \/ MyCaseSearch_Refresh(p)
       \/ MyCaseSearch_SelectId(p)
       \/ MyCaseSearch_Update(p)
       \/ MyCaseSearch_Search(p)
       \/ MyCaseSearch_Cases(p)
       \/ GoogleFolders_GET(p)
       \/ GoogleFolders_GetUser(p)
       \/ GoogleFolders_Select(p)
       \/ GoogleFolders_Refresh(p)
       \/ GoogleFolders_Update(p)
       \/ GoogleFolders_List(p)
       \/ AdminUsers_DELETE(p)
       \/ AdminUsers_DeleteUser(p)

Spec == Init /\ [][Next]_vars

(***************************************************************************)
(* Requests in flight together.  The hosting runtime runs handlers         *)
(* concurrently, and a handler gives way at each await.  The two           *)
(* integrations share no table, so a run races the requests of one         *)
(* integration: slot p1 serves its domain operation, slot p2 its callback  *)
(* and its domain operation.  The clock stands still: a record is stale    *)
(* by the lifetime its authority declared.                                 *)
(***************************************************************************)

MyCaseKinds == {"mycaseCallback", "mycaseClients"}
GoogleKinds == {"googleCallback", "googleUpload"}
\* no slot has served a request of another integration
Only(kinds) == \A p \in Procs : op[p].kind \in kinds \cup {"idle"}

MyCaseCallback(p) ==
  \/ MyCaseCallback_GET(p)
  \/ MyCaseCallback_Exchange(p)
  \/ MyCaseCallback_Upsert(p)
  \/ MyCaseCallback_Insert(p)

GoogleCallback(p) ==
  \/ GoogleCallback_GET(p)
  \/ GoogleCallback_Exchange(p)
  \/ GoogleCallback_Upsert(p)

MyCaseClients(p) ==
  \/ MyCaseClients_GET(p)
  \/ MyCaseClients_Select(p)
  \/ MyCaseClients_Refresh(p)
  \/ MyCaseClients_SelectId(p)
  \/ MyCaseClients_Update(p)
  \/ MyCaseClients_Page(p)

GoogleUpload(p) ==
  \/ GoogleUpload_POST(p)
  \/ GoogleUpload_Select(p)
  \/ GoogleUpload_Refresh(p)
  \/ GoogleUpload_Update(p)
  \/ GoogleUpload_Upload(p)

(***************************************************************************)
(* Listings.  The authority holds any listing of up to MaxPages pages, the *)
(* integration is connected with a record that is not due for refresh,     *)
(* and list-cases requests are served one after the other.                 *)
(***************************************************************************)

InitPaging ==
  /\ now = 0
  /\ mycase_oauth_tokens = {[id |-> 1, access_token |-> "a1", refresh_token |-> "r1",
                             expires_at |-> SKEW + 1]}
  /\ google_oauth_tokens = {}
  /\ auth_users = Users
  /\ evidence_logs = {}
  /\ evidence_files = <<>>
  /\ dashboard = Mounted
  /\ op = [p \in Procs |-> Idle]
  /\ \E n \in 1..MaxPages : v1_cases \in Listings(n)

NextPaging ==
  \E p \in Sequential :
    \/ MyCaseClients_GET(p)
    \/ MyCaseClients_Select(p)
    \/ MyCaseClients_Page(p)

Paging == InitPaging /\ [][NextPaging]_vars

\* the listings of n pages in which page k holds case k or no case
Chains(n) ==
  { [k \in 1..n |->
       [cases |-> IF k \in held THEN <<k>> ELSE <<>>,
        page_token |-> IF k = 1 THEN <<>> ELSE PageToken(k, padded)]] :
     held \in SUBSET (1..n), padded \in BOOLEAN }

\* as InitPaging, over the chains
InitTermination ==
  /\ now = 0
  /\ mycase_oauth_tokens = {[id |-> 1, access_token |-> "a1", refresh_token |-> "r1",
                             expires_at |-> SKEW + 1]}
  /\ google_oauth_tokens = {}
  /\ auth_users = Users
  /\ evidence_logs = {}
  /\ evidence_files = <<>>
  /\ dashboard = Mounted
  /\ op = [p \in Procs |-> Idle]
  /\ \E n \in 1..MaxPages : v1_cases \in Chains(n)

\* every request returns: the read of the record and each page request
\* are answered
Termination ==
  /\ InitTermination
  /\ [][NextPaging]_vars
  /\ WF_vars(\E p \in Sequential : MyCaseClients_Select(p) \/ MyCaseClients_Page(p))

NextRace ==
  \/ Only(MyCaseKinds) /\ (MyCaseClients("p1") \/ MyCaseClients("p2") \/ MyCaseCallback("p2"))
  \/ Only(GoogleKinds) /\ (GoogleUpload("p1") \/ GoogleUpload("p2") \/ GoogleCallback("p2"))

Race == Init /\ [][NextRace]_vars

(***************************************************************************)
(* Accounts.  A deployment with two users, whose requests are served one   *)
(* after the other.  An administrator may delete a user.  The clock        *)
(* stands still.                                                           *)
(***************************************************************************)

InitAccounts ==
  /\ now = 0
  /\ mycase_oauth_tokens = {}
  /\ google_oauth_tokens = {}
  /\ auth_users = Tenants
  /\ evidence_logs = {}
  /\ evidence_files = <<>>
  /\ dashboard = Mounted
  /\ op = [p \in Procs |-> Idle]
  /\ v1_cases = <<[cases |-> <<1, 2>>, page_token |-> <<>>]>>

NextAccounts ==
  \E p \in Sequential :
    \/ GoogleStart_GET(p)
    \/ GoogleCallback(p)
    \/ GoogleCookieCallback_GET(p)
    \/ GoogleCookieCallback_Exchange(p)
    \/ GoogleCookieCallback_Upsert(p)
    \/ GoogleUpload(p)
    \/ GoogleFolders_GET(p)
    \/ GoogleFolders_GetUser(p)
    \/ GoogleFolders_Select(p)
    \/ GoogleFolders_Refresh(p)
    \/ GoogleFolders_Update(p)
    \/ GoogleFolders_List(p)
    \/ AdminUsers_DELETE(p)
    \/ AdminUsers_DeleteUser(p)

Accounts == InitAccounts /\ [][NextAccounts]_vars

(***************************************************************************)
(* Submissions of evidence from one dashboard page.                        *)
(***************************************************************************)

NextSubmission ==
  \/ handleFileSelect
  \/ removeFile
  \/ handleSubmit
  \/ Submit_InsertLog
  \/ Submit_Upload
  \/ Submit_InsertFile

Submission == Init /\ [][NextSubmission]_vars

(***************************************************************************)
(* A page session: searches typed into the dashboard and the Refresh       *)
(* button, with the answers to their requests in any order.                *)
(***************************************************************************)

NextSession ==
  \/ setClientSearch
  \/ Timeout
  \/ fetchMyCaseClients
  \/ Search_Clients
  \/ Search_SearchClients

Session == Init /\ [][NextSession]_vars

(***************************************************************************)
(* Properties                                                              *)
(***************************************************************************)

\* the handlers that use a token record for a domain call
DomainOps == {"mycaseClients", "googleUpload"}
\* p is in a domain operation that has called refreshTokenIfNeeded
Called(p) == op[p].kind \in DomainOps /\ op[p].refresh # "none" /\ op[p].pc # "done"
\* ... whose refresh exchange has succeeded: tokens is the new record
Refreshed(p) ==
  /\ Called(p)
  /\ \/ op[p].refresh = "pending" /\ op[p].pc \in {"selectId", "update"}
     \/ op[p].refresh = "done"

\* C1: a record that expires more than SKEW after the call is returned as it
\* was given, with no refresh exchange and no Token Store write, in the call
\* and in the rest of the handler
C1_FreshRecordReturnedUnchanged ==
  \A p \in Procs :
    /\ (Called(p) /\ op[p].input.expires_at > op[p].calledAt + SKEW) =>
         /\ op[p].refresh = "skipped"
         /\ op[p].tokens = op[p].input
         /\ op[p].nExchange = 0
         /\ op[p].nWrite = 0
    /\ (op[p].kind \in DomainOps /\ op[p].refresh = "skipped") =>
         op[p].nExchange = 0 /\ op[p].nWrite = 0

C1_Witness ==
  \E p \in Procs :
    /\ Called(p) /\ op[p].input.expires_at > op[p].calledAt + SKEW
    /\ op[p].pc \in {"page", "upload"}

\* C2 as claimed: a record that expires at or before the call plus SKEW, the
\* margin included, gets exactly one refresh exchange
C2_RefreshedAtTheMargin ==
  \A p \in Procs :
    (Called(p) /\ op[p].input.expires_at <= op[p].calledAt + SKEW) =>
      op[p].nExchange = 1

\* C2 amended: a record that expires less than SKEW after the call gets
\* exactly one refresh exchange, whether it succeeds or fails; a record that
\* expires exactly SKEW after the call gets none
C2_StaleRecordRefreshedOnce ==
  \A p \in Procs :
    /\ Called(p) =>
         /\ op[p].input.expires_at < op[p].calledAt + SKEW => op[p].nExchange = 1
         /\ op[p].input.expires_at = op[p].calledAt + SKEW => op[p].nExchange = 0
    /\ (op[p].kind \in DomainOps /\ op[p].refresh \in {"done", "failed"}) =>
         op[p].nExchange = 1

C2_Witness ==
  \E p \in Procs :
    /\ Called(p) /\ op[p].input.expires_at < op[p].calledAt + SKEW
    /\ op[p].refresh = "done" /\ op[p].nExchange = 1

\* C3 as claimed: a refreshed record expires strictly later than the record
\* given, whatever lifetime the authority declared
C3_RefreshedExpiresLater ==
  \A p \in Procs :
    Refreshed(p) => op[p].tokens.expires_at > op[p].input.expires_at

\* C3 amended: a refreshed record expires strictly later than the record
\* given whenever the declared lifetime is at least SKEW
C3_LongLifetimeExpiresLater ==
  \A p \in Procs :
    (Refreshed(p) /\ op[p].data.expires_in >= SKEW) =>
      op[p].tokens.expires_at > op[p].input.expires_at

C3_Witness ==
  \E p \in Procs :
    /\ Refreshed(p) /\ op[p].data.expires_in = SKEW
    /\ op[p].refresh = "done"
    /\ op[p].input.expires_at = op[p].calledAt + SKEW - 1

\* the rows of the Token Store that belong to the subject of p's request
SubjectRows(p) ==
  IF op[p].kind \in {"mycaseClients", "mycaseCallback"}
    THEN mycase_oauth_tokens
    ELSE {r \in google_oauth_tokens : r.user_id = op[p].userId}

\* C4: once a refresh made at refreshedAt with declared lifetime expires_in
\* has returned, the returned record expires at refreshedAt + expires_in and
\* the Token Store holds its access token and its expiry for the subject
C4_StoreReflectsRefresh ==
  \A p \in Procs :
    (Called(p) /\ op[p].refresh = "done") =>
      /\ op[p].tokens.expires_at = op[p].refreshedAt + op[p].data.expires_in
      /\ \E r \in SubjectRows(p) :
           /\ r.access_token = op[p].tokens.access_token
           /\ r.expires_at = op[p].tokens.expires_at

\* C5: after a refresh whose Token Store calls all succeeded, the refresh
\* token of the returned record and of the stored record is the one the
\* authority issued if it issued one, else the one the call was given
C5_RefreshTokenReplacedOrCarried ==
  \A p \in Procs :
    (Called(p) /\ op[p].refresh = "done" /\ ~op[p].storageError) =>
      LET expected == IF op[p].data.refresh_token # Undef
                        THEN op[p].data.refresh_token
                        ELSE op[p].input.refresh_token
      IN /\ op[p].tokens.refresh_token = expected
         /\ \A r \in SubjectRows(p) : r.refresh_token = expected

\* the response a thrown Error('Failed to refresh token') ends in
RefreshFailed ==
  [status |-> 500, body |-> "Failed to refresh token",
   needsOAuth |-> FALSE, oauthUrl |-> Undef]

\* C6: the step in which the authority rejects the refresh exchange ends the
\* handler with RefreshFailed and leaves both token tables as they were; the
\* handler has written nothing
C6_RejectedRefreshFails ==
  [][\A p \in Procs :
       (op[p].pc = "refresh" /\ op'[p].refresh = "failed") =>
         /\ op'[p].pc = "done"
         /\ op'[p].response = RefreshFailed
         /\ op'[p].nWrite = 0
         /\ mycase_oauth_tokens' = mycase_oauth_tokens
         /\ google_oauth_tokens' = google_oauth_tokens]_vars

C6_Witness ==
  \E p \in Procs :
    /\ op[p].kind = "mycaseClients" /\ op[p].refresh = "failed"
    /\ op[p].response = RefreshFailed
    /\ mycase_oauth_tokens # {}

\* C7: a handler issues at most one refresh exchange, and one whose refresh
\* was rejected has ended after that one attempt without any domain API
\* request
C7_OneAttemptNoStaleCall ==
  \A p \in Procs :
    /\ op[p].nExchange <= 1
    /\ op[p].refresh = "failed" =>
         op[p].pc = "done" /\ op[p].nExchange = 1 /\ op[p].nApi = 0

C7_Witness ==
  \E p \in Procs :
    /\ op[p].kind = "googleUpload" /\ op[p].refresh = "failed"
    /\ op[p].pc = "done" /\ op[p].nExchange = 1

\* the authorization start URL of the integration p's request belongs to
StartUrl(p) ==
  IF op[p].kind = "mycaseClients" THEN "/api/mycase/oauth/start"
  ELSE "/api/google/oauth/start"

\* C8: when the Token Store read of a domain operation returns and the
\* subject has no row, the handler ends with 401, needsOAuth and the
\* integration's start URL, having issued no refresh exchange and no domain
\* API request
C8_NeverWrittenIsNotConnected ==
  [][\A p \in Procs :
       (op[p].kind \in DomainOps /\ op[p].pc = "select" /\ op'[p].pc # "select"
        /\ SubjectRows(p) = {}) =>
         /\ op'[p].pc = "done"
         /\ op'[p].response = [status |-> 401, body |-> "not connected",
                               needsOAuth |-> TRUE, oauthUrl |-> StartUrl(p)]
         /\ op'[p].nExchange = 0
         /\ op'[p].nApi = 0]_vars

C8_Witness ==
  \E p \in Procs :
    /\ op[p].kind \in DomainOps /\ op[p].pc = "done"
    /\ op[p].response.needsOAuth /\ ~op[p].storageError
    /\ SubjectRows(p) = {}

\* C9: a domain operation answers NotConnected only when the subject has no
\* row
C9_NotConnectedOnlyWithoutRow ==
  \A p \in Procs :
    (op[p].kind \in DomainOps /\ op[p].pc = "done" /\ op[p].response.needsOAuth) =>
      SubjectRows(p) = {}

\* C10: a callback whose code exchange succeeded and whose Token Store calls
\* met no storage error ends in success, and the subject's rows are then
\* exactly the record it obtained, whatever was stored before
C10_LastCallbackWins ==
  [][\A p \in Procs :
       (/\ op[p].kind \in {"mycaseCallback", "googleCallback"}
        /\ op[p].pc \in {"upsert", "insert"}
        /\ op'[p].pc = "done"
        /\ ~op'[p].storageError
        /\ op[p].kind = "googleCallback" => op[p].userId \in Users) =>
         /\ op'[p].response.body \in {"MyCase Connected Successfully",
                                      "/dashboard?google_connected=true"}
         /\ Cardinality(SubjectRows(p)') = 1
         /\ \A r \in SubjectRows(p)' :
              /\ r.access_token = op[p].tokens.access_token
              /\ r.refresh_token = op[p].tokens.refresh_token
              /\ r.expires_at = op[p].tokens.expires_at]_vars

\* C11: in every state the Token Store holds at most one row of
\* mycase_oauth_tokens and at most one row of google_oauth_tokens per
\* user_id, whatever callbacks and refreshes have run and however they
\* interleaved
C11_OneRecordPerSubject ==
  /\ Cardinality(mycase_oauth_tokens) <= 1
  /\ \A u \in Users : Cardinality({r \in google_oauth_tokens : r.user_id = u}) <= 1

\* a second callback ran into the singleton index while a refresh was about
\* to write
C11_Witness ==
  /\ op["p2"].kind = "mycaseCallback" /\ op["p2"].pc = "done"
  /\ op["p2"].response.body = "Failed to save tokens" /\ ~op["p2"].storageError
  /\ op["p1"].kind = "mycaseClients" /\ op["p1"].pc = "update"
  /\ Cardinality(mycase_oauth_tokens) = 1

\* the record a writer means to store: the callback's is the one it built
\* from the code exchange, the refresh's is the record it was given with the
\* access token and expiry of its exchange and with the refresh token the
\* exchange issued, if any
WriterRecord(p) ==
  [access_token |-> op[p].tokens.access_token,
   refresh_token |-> IF op[p].tokens.refresh_token = Undef
                       THEN op[p].input.refresh_token
                       ELSE op[p].tokens.refresh_token,
   expires_at |-> op[p].tokens.expires_at]

\* C12: every write to a token table leaves the subject's row equal, in
\* access token, refresh token and expiry, to the record of the request that
\* wrote it, whatever other request wrote in between its read and its write
C12_StoredRecordIsOneWriters ==
  [][\A p \in Procs :
       (/\ op'[p] # op[p]
        /\ <<mycase_oauth_tokens, google_oauth_tokens>>' #
             <<mycase_oauth_tokens, google_oauth_tokens>>) =>
         \A r \in SubjectRows(p)' :
           [access_token |-> r.access_token, refresh_token |-> r.refresh_token,
            expires_at |-> r.expires_at] = WriterRecord(p)]_vars

\* C13: when two domain operations of one integration have read the same
\* stale record, have both refreshed it with no storage error and are both
\* in their domain call, the subject has exactly one row and it is, in
\* access token, refresh token and expiry, the refreshed record of one of
\* the two
C13_RaceLeavesOneRefreshedRecord ==
  (/\ op["p1"].kind \in DomainOps /\ op["p2"].kind = op["p1"].kind
   /\ \A p \in Procs : /\ op[p].refresh = "done" /\ op[p].pc \in {"page", "upload"}
                       /\ ~op[p].storageError
   /\ op["p1"].input = op["p2"].input) =>
     /\ \A p \in Procs : op[p].nApi >= 1
     /\ Cardinality(SubjectRows("p1")) = 1
     /\ \A r \in SubjectRows("p1") :
          [access_token |-> r.access_token, refresh_token |-> r.refresh_token,
           expires_at |-> r.expires_at] \in {WriterRecord(p) : p \in Procs}

\* the cases of the first n pages of a listing, page after page
RECURSIVE CasesUpTo(_, _)
CasesUpTo(listing, n) ==
  IF n = 0 THEN <<>> ELSE CasesUpTo(listing, n - 1) \o listing[n].cases

\* how often x occurs in a sequence
Count(seq, x) == Cardinality({i \in DOMAIN seq : seq[i] = x})

\* C14: every request of the listing asks the authority for the page after
\* the ones received so far, whose cases are all held; and a listing that
\* answers with clients has received every page the authority holds and
\* returns each case as often as the pages did
C14_EveryPageFollowedAndKept ==
  \A p \in Procs :
    /\ At(p, "mycaseClients", "page") =>
         /\ PageFor(v1_cases, op[p].page_token) = op[p].pageCount
         /\ op[p].allCases = CasesUpTo(v1_cases, op[p].pageCount - 1)
    /\ (op[p].kind = "mycaseClients" /\ op[p].response.body = "clients") =>
         \A x \in CaseIds :
           Count(op[p].clients, x) = Count(CasesUpTo(v1_cases, Len(v1_cases)), x)

\* a sequence without the later occurrences of what it already holds
RECURSIVE FirstSeen(_)
FirstSeen(seq) ==
  IF seq = <<>> THEN <<>>
  ELSE LET front == FirstSeen(SubSeq(seq, 1, Len(seq) - 1))
           x     == seq[Len(seq)]
       IN IF Count(front, x) > 0 THEN front ELSE front \o <<x>>

\* C15: a listing that answers with clients returns each case of the pages
\* once, in the order in which the pages first showed it
C15_EachCaseOnceInFirstSeenOrder ==
  \A p \in Procs :
    (op[p].kind = "mycaseClients" /\ op[p].response.body = "clients") =>
      op[p].clients = FirstSeen(CasesUpTo(v1_cases, Len(v1_cases)))

\* the callbacks of the file-storage integration
GoogleCallbacks == {"googleCallback", "googleCookieCallback"}

\* C16: a callback whose state parameter is absent or is no user's id sends
\* no upsert and changes no table, whatever its other parameters and its
\* cookie are
C16_NoStateNoUpsert ==
  [][\A p \in Procs :
       (/\ op[p].kind \in GoogleCallbacks /\ op[p].pc \in {"exchange", "upsert"}
        /\ op[p].state \notin Users /\ op'[p] # op[p]) =>
         /\ op'[p].nWrite = 0
         /\ google_oauth_tokens' = google_oauth_tokens]_vars

\* the handlers of the authorization callbacks
CallbackKinds == {"mycaseCallback"} \cup GoogleCallbacks
\* what a callback answers when it has connected the integration
SuccessPages == {"MyCase Connected Successfully", "/dashboard?google_connected=true"}

\* C17: a callback that answers at once (it carries error, or no code, or
\* no state) and a callback whose code exchange brought no token response
\* both end there, with a response that is not the success page, and leave
\* both token tables as they were
C17_FailedCallbackLeavesStore ==
  [][\A p \in Procs :
       (/\ op'[p].kind \in CallbackKinds /\ op'[p] # op[p]
        /\ \/ Free(p) /\ op'[p].pc = "done"
           \/ op[p].pc = "exchange" /\ op'[p].data = NoData) =>
         /\ op'[p].pc = "done"
         /\ op'[p].response.body \notin SuccessPages
         /\ op'[p].response.body # "none"
         /\ op'[p].nWrite = 0
         /\ mycase_oauth_tokens' = mycase_oauth_tokens
         /\ google_oauth_tokens' = google_oauth_tokens]_vars

\* the exchange of a case-management callback was rejected while a record
\* was stored
C17_Witness ==
  \E p \in Procs :
    /\ op[p].kind = "mycaseCallback" /\ op[p].pc = "done"
    /\ op[p].response.body = "Token exchange failed"
    /\ mycase_oauth_tokens # {}

\* C18: in the step in which a callback answers with its success page, the
\* subject's row holds the access token of this callback's code exchange
\* and expires expires_in after the instant of that exchange, and the
\* callback has sent a write
C18_SuccessOnlyAfterPersisted ==
  [][\A p \in Procs :
       (/\ op[p].kind \in CallbackKinds /\ op[p].pc # "done"
        /\ op'[p].pc = "done" /\ op'[p].response.body \in SuccessPages) =>
         /\ op[p].nWrite >= 1
         /\ op[p].data # NoData
         /\ \E r \in SubjectRows(p)' :
              /\ r.access_token = op[p].data.access_token
              /\ r.expires_at = op[p].refreshedAt + op[p].data.expires_in]_vars

\* a file-storage callback has answered with its success page
C18_Witness ==
  \E p \in Procs :
    /\ op[p].kind = "googleCallback" /\ op[p].pc = "done"
    /\ op[p].response.body = "/dashboard?google_connected=true"
    /\ \E r \in google_oauth_tokens : r.user_id = op[p].userId

\* every handler that calls a third-party API with a token record
AllDomainOps == DomainOps \cup {"mycaseSearch", "googleFolders"}
\* the positions at which a domain API request is under way
ApiCalls == {"page", "search", "cases", "upload", "list"}

\* C19: in every domain operation, no refresh check has been made and no
\* API request sent while the Token Store read is outstanding; the check
\* is made on the record that was read; no API request is sent before the
\* check has returned; and the request under way carries the access token
\* the check returned: that of the record read when it was fresh, that of
\* the refresh exchange otherwise
C19_ReadThenCheckThenCall ==
  \A p \in Procs :
    op[p].kind \in AllDomainOps =>
      /\ op[p].pc \in {"getUser", "select"} => op[p].refresh = "none" /\ op[p].nApi = 0
      /\ (op[p].refresh # "none" /\ op[p].pc # "done") => op[p].input.access_token # Undef
      /\ op[p].refresh \in {"none", "pending", "failed"} => op[p].nApi = 0
      /\ op[p].pc \in ApiCalls =>
           /\ op[p].nApi >= 1
           /\ op[p].bearer = IF op[p].refresh = "skipped"
                                THEN op[p].input.access_token
                                ELSE op[p].data.access_token

\* a search is fetching a client's cases with the token of its refresh
C19_Witness ==
  \E p \in Procs :
    /\ op[p].kind = "mycaseSearch" /\ op[p].pc = "cases"
    /\ op[p].refresh = "done"
    /\ op[p].bearer = op[p].data.access_token
    /\ op[p].bearer # op[p].input.access_token

\* C20: a domain operation whose refresh exchange was rejected answers with
\* the call to action of NotConnected: needsOAuth and the URL that starts
\* the authorization flow
C20_RefreshFailedAsksToReauthorize ==
  \A p \in Procs :
    (op[p].kind \in AllDomainOps /\ op[p].refresh = "failed" /\ op[p].pc = "done") =>
      /\ op[p].response.needsOAuth
      /\ op[p].response.oauthUrl \in {"/api/mycase/oauth/start", "/api/google/oauth/start"}

(***************************************************************************)
(* C21: when the API rejects a domain call with an authorization failure   *)
(* the operation ends there with a failure response: it makes no further   *)
(* call, sends no second refresh exchange and never answers with success.  *)
(***************************************************************************)
C21_RejectedCallFails ==
  \A p \in Procs :
    (op[p].kind \in AllDomainOps /\ op[p].unauthorized) =>
      /\ op[p].pc = "done"
      /\ op[p].response.status >= 400
      /\ op[p].nExchange <= 1

\* the ids of the rows of a table
Ids(tbl) == {r.id : r \in tbl}
\* the rows of the file-storage table of a user
RowsOf(tbl, u) == {r \in tbl : r.user_id = u}
\* a step of a domain operation that sends the update of a refresh
RefreshWrites ==
  \E p \in Procs : op[p].kind \in AllDomainOps /\ op[p].pc = "update" /\ op'[p] # op[p]
\* the step in which the deletion of user u is carried out
DeletesUser(u) ==
  \E p \in Procs : At(p, "adminUsers", "deleteUser") /\ op[p].userId = u /\ op'[p] # op[p]

(***************************************************************************)
(* C22: a subject that has a record keeps exactly one, in the same row,    *)
(* through every step, and the update of a refresh leaves the set of rows  *)
(* of both tables as it is; the one exception is the deletion of a user,   *)
(* which takes the user's file-storage record with it.                     *)
(***************************************************************************)
C22_RecordKeptButForUserDeletion ==
  [][/\ \A r \in mycase_oauth_tokens :
          \A r2 \in mycase_oauth_tokens' : r2.id = r.id
     /\ mycase_oauth_tokens # {} => mycase_oauth_tokens' # {}
     /\ \A r \in google_oauth_tokens :
          \/ DeletesUser(r.user_id)
          \/ /\ \E r2 \in google_oauth_tokens' : r2.user_id = r.user_id
             /\ \A r2 \in google_oauth_tokens' : r2.user_id = r.user_id => r2.id = r.id
     /\ RefreshWrites =>
          /\ Ids(mycase_oauth_tokens') = Ids(mycase_oauth_tokens)
          /\ Ids(google_oauth_tokens') = Ids(google_oauth_tokens)]_vars

\* a refresh has rewritten the one row of the case-management record
C22_Witness ==
  \E p \in Procs :
    /\ At(p, "mycaseClients", "done")
    /\ op[p].refresh = "done" /\ ~op[p].storageError
    /\ \E r \in mycase_oauth_tokens :
         mycase_oauth_tokens = {r} /\ r.id = 1 /\ r.access_token = "a2"

\* C22 as stated: no step takes a record away from a subject that has one
C22_RecordNeverDeleted ==
  [][\A u \in Tenants :
       RowsOf(google_oauth_tokens, u) # {} =>
         Cardinality(RowsOf(google_oauth_tokens', u)) = 1]_vars

(***************************************************************************)
(* C23: the authorization URL of the file-storage start handler carries    *)
(* the user's id in its state parameter, and a file-storage callback that  *)
(* writes a record writes it under the user id its state parameter         *)
(* carried.                                                                *)
(***************************************************************************)
C23_PersistedUnderStateSubject ==
  [][\A p \in Procs :
       /\ (op'[p].kind = "googleStart" /\ op'[p].authUrlState # <<>>) =>
            PercentDecode(op'[p].authUrlState) = <<op'[p].userId>>
       /\ (/\ op[p].kind \in GoogleCallbacks /\ op[p].pc = "upsert"
           /\ op'[p] # op[p]
           /\ google_oauth_tokens' # google_oauth_tokens) =>
            \E r \in google_oauth_tokens' \ google_oauth_tokens :
              r.user_id = op[p].state]_vars

\* the columns of a record but for its id
Columns(r) == [access_token |-> r.access_token, refresh_token |-> r.refresh_token,
               expires_at |-> r.expires_at]
\* the table holds for the user the record the callback in slot p writes
HoldsWritten(tbl, p) ==
  \E r \in tbl :
    /\ r.user_id = op[p].userId
    /\ Columns(r) = Columns(op[p].tokens)
    /\ r.scope = op[p].data.scope

(***************************************************************************)
(* C24: the write of a successful authorization callback, run again with   *)
(* the same record for the same subject, leaves the store as the first     *)
(* run left it: the subject has one record, with the columns written.      *)
(***************************************************************************)
C24_CallbackWriteIdempotent ==
  [][\A p \in Procs :
       /\ (/\ op[p].kind \in GoogleCallbacks /\ op[p].pc = "upsert"
           /\ op'[p].response.body = "/dashboard?google_connected=true") =>
            /\ HoldsWritten(google_oauth_tokens', p)
            /\ GoogleUpsert(google_oauth_tokens', op[p].userId, op[p].tokens,
                            op[p].data.scope) = google_oauth_tokens'
            /\ HoldsWritten(google_oauth_tokens, p) =>
                 google_oauth_tokens' = google_oauth_tokens
       /\ (/\ op[p].kind = "mycaseCallback" /\ op[p].pc \in {"upsert", "insert"}
           /\ op'[p].response.body = "MyCase Connected Successfully") =>
            /\ \E r \in mycase_oauth_tokens' :
                 mycase_oauth_tokens' = {r} /\ Columns(r) = Columns(op[p].tokens)
            /\ SingletonViolated(mycase_oauth_tokens')]_vars

\* the callback is about to write the record the store holds from an
\* earlier run
C24_Witness ==
  \E p \in Procs :
    /\ At(p, "googleCallback", "upsert")
    /\ op[p].userId \in auth_users
    /\ HoldsWritten(google_oauth_tokens, p)

\* the handlers of the file-storage integration that write its table
GoogleWriters == GoogleCallbacks \cup {"googleUpload", "googleFolders"}

(***************************************************************************)
(* C25: the write of a refresh or of an authorization callback for a user  *)
(* leaves the records of every other user, and the record of the           *)
(* case-management integration, as they are.                               *)
(***************************************************************************)
C25_OnlyTheSubjectsRecordChanges ==
  [][\A p \in Procs :
       (/\ op[p].kind \in GoogleWriters /\ op[p].pc \in {"upsert", "update"}
        /\ op'[p] # op[p]) =>
         /\ \A u \in Tenants \ {op[p].tokens.user_id} :
              RowsOf(google_oauth_tokens', u) = RowsOf(google_oauth_tokens, u)
         /\ mycase_oauth_tokens' = mycase_oauth_tokens]_vars

\* a refresh for u1 has rewritten u1's record while u2 has another
C25_Witness ==
  \E p \in Procs :
    /\ At(p, "googleUpload", "done")
    /\ op[p].userId = "u1" /\ op[p].refresh = "done" /\ ~op[p].storageError
    /\ \E r1 \in RowsOf(google_oauth_tokens, "u1"), r2 \in RowsOf(google_oauth_tokens, "u2") :
         r1.access_token = "a2" /\ r2.access_token = "a1"

\* no element occurs twice in the sequence
Distinct(seq) == \A i, j \in DOMAIN seq : i # j => seq[i] # seq[j]

(***************************************************************************)
(* C26: a list-cases operation whose requests are all answered ends.  It   *)
(* sends one request per page, in the order of the pages and never the     *)
(* same page token twice; it goes on only after a page that was served     *)
(* with a next link, and it answers with the clients only when the page    *)
(* last served has no next link.                                           *)
(***************************************************************************)
C26_ListingTerminates ==
  /\ [](\A p \in Sequential :
          op[p].kind = "mycaseClients" =>
            /\ op[p].nApi <= Len(v1_cases)
            /\ Len(op[p].requested) = op[p].nApi
            /\ Distinct(op[p].requested)
            /\ \A i \in 1..(op[p].nApi - 1) :
                 /\ PageFor(v1_cases, op[p].requested[i]) = i
                 /\ op[p].requested[i + 1] = PercentEncode(LinkNextToken(v1_cases, i))
            /\ op[p].response.body = "clients" =>
                 LET k == PageFor(v1_cases, op[p].requested[op[p].nApi])
                 IN k = op[p].nApi /\ LinkNextToken(v1_cases, k) = <<>>)
  /\ \A p \in Sequential :
       At(p, "mycaseClients", "select") ~> At(p, "mycaseClients", "done")

\* a listing of three pages was served page after page and answered
C26_Witness ==
  \E p \in Procs :
    /\ At(p, "mycaseClients", "done")
    /\ op[p].response.body = "clients"
    /\ Len(v1_cases) = 3 /\ op[p].nApi = 3

IsPrefix(seq, longer) ==
  Len(seq) <= Len(longer) /\ \A i \in DOMAIN seq : longer[i] = seq[i]

(***************************************************************************)
(* C28: the search operation holds each client once: an answer to a        *)
(* search adds the clients not yet held behind those held, and the cases   *)
(* requests go through the clients held one by one, so that no client id   *)
(* is asked for twice.                                                     *)
(***************************************************************************)
C28_EachClientOnce ==
  [][\A p \in Procs :
       (op[p].kind = "mycaseSearch" /\ op'[p].kind = "mycaseSearch"
        /\ op'[p] # op[p] /\ op[p].pc # "done" /\ op'[p].pc # "done") =>
         /\ Distinct(op'[p].allClients)
         /\ IsPrefix(op[p].allClients, op'[p].allClients)
         /\ op'[p].pc = "cases" =>
              /\ op'[p].cursor = op[p].cursor + 1
              /\ op'[p].cursor <= Len(op'[p].allClients)
              /\ op'[p].nApi = op[p].nApi + 1
         /\ op[p].pc = "cases" => op'[p].allClients = op[p].allClients]_vars

\* both searches were answered, one with a client the other returned too,
\* and the cases of the second of the two clients held are being requested
C28_Witness ==
  \E p \in Procs :
    /\ At(p, "mycaseSearch", "cases")
    /\ op[p].allClients = <<1, 2>>
    /\ op[p].cursor = 2
    /\ op[p].nApi = 4
    /\ ~op[p].unauthorized

\* the files recorded in evidence_files for a row of evidence_logs, in the
\* order of their insertion
RECURSIVE RecordedFor(_, _)
RecordedFor(rows, id) ==
  IF rows = <<>> THEN <<>>
  ELSE (IF Head(rows).evidence_log_id = id THEN <<Head(rows).file_name>> ELSE <<>>)
       \o RecordedFor(Tail(rows), id)

\* seq holds some of the elements of whole, in the order of whole
RECURSIVE IsSubsequence(_, _)
IsSubsequence(seq, whole) ==
  IF seq = <<>> THEN TRUE
  ELSE IF whole = <<>> THEN FALSE
  ELSE IF Head(seq) = Head(whole) THEN IsSubsequence(Tail(seq), Tail(whole))
  ELSE IsSubsequence(seq, Tail(whole))

(***************************************************************************)
(* C29: a submission sends its files to the upload route in the order of   *)
(* its list, each after the one before was uploaded, and none after an     *)
(* upload that failed; a row of evidence_files is inserted for the file    *)
(* whose upload has just succeeded, under the id of the evidence_logs row  *)
(* this submission inserted.                                               *)
(***************************************************************************)
C29_FilesInOrderRecordedAfterUpload ==
  /\ [](LET submit == dashboard.submit
        IN /\ IsPrefix(submit.requests, submit.files)
           /\ IsPrefix(submit.uploadedFiles, submit.requests)
           /\ Len(submit.requests) - Len(submit.uploadedFiles) =
                IF submit.pc = "upload" \/ (submit.error /\ submit.requests # <<>>)
                  THEN 1 ELSE 0
           /\ submit.logData # 0 =>
                /\ submit.logData \in evidence_logs
                /\ IsSubsequence(RecordedFor(evidence_files, submit.logData),
                                 submit.uploadedFiles)
           /\ \A i \in DOMAIN evidence_files :
                evidence_files[i].evidence_log_id \in evidence_logs)
  /\ [][LET submit == dashboard.submit
        IN /\ evidence_files' # evidence_files =>
                /\ submit.pc = "insertFile"
                /\ Last(submit.uploadedFiles) = submit.files[submit.cursor]
                /\ evidence_files' =
                     Append(evidence_files,
                            [evidence_log_id |-> submit.logData,
                             file_name |-> submit.files[submit.cursor]])
           /\ evidence_logs' # evidence_logs =>
                /\ submit.pc = "insertLog"
                /\ dashboard'.submit.logData \notin evidence_logs
                /\ evidence_logs' = evidence_logs \cup {dashboard'.submit.logData}]_vars

\* the second submission failed at its second file of three: the first is
\* recorded under the second evidence_logs row, the third was not sent
C29_Witness ==
  /\ dashboard.submit.pc = "done"
  /\ dashboard.submit.error
  /\ dashboard.submit.logData = 2
  /\ dashboard.submit.files = <<1, 2, 3>>
  /\ dashboard.submit.requests = <<1, 2>>
  /\ RecordedFor(evidence_files, 2) = <<1>>
  /\ RecordedFor(evidence_files, 1) # <<>>

(***************************************************************************)
(* C30: in a page session the list of all cases is requested only while    *)
(* the cache is not loaded and no request for it is in flight: once        *)
(* loaded, no search sends a request.                                      *)
(***************************************************************************)
C30_CacheFetchedOnce ==
  [][dashboard'.nFetch > dashboard.nFetch =>
       ~dashboard.cacheLoaded /\ dashboard.fetching = 0]_vars

====
